---- MODULE Spec2Model ----
(***************************************************************************)
(* Model of the note service of src/src/fastapi/main.py and its indexer    *)
(* src/src/pinecone/main.py: the document store (MongoDB collection        *)
(* "files"), the vector index (Pinecone, one record set per namespace) and *)
(* the upload, delete and update request handlers, the chat path           *)
(* (get_context, src/src/model/main.py, the chat log), the deletion of the *)
(* whole index, and uploads handled in parallel.                           *)
(*                                                                         *)
(* Strings are sequences of symbols, so that strip(), the f-string that    *)
(* builds a record ID and the comparison with the literal "None" are       *)
(* computed and not assumed.  A note's content is a run-length encoded     *)
(* text: a sequence of runs [ch, n] standing for n copies of ch.           *)
(***************************************************************************)
EXTENDS Integers, Sequences, FiniteSets, TLC

(***************************************************************************)
(* Bounds of the model.                                                    *)
(***************************************************************************)
MaxFiles == 2
MaxDate == 2
MaxRequests == 2
MaxRequestsNoFail == 3
MaxChatRequests == 2
MaxAdminRequests == 3
MaxConcurrentUploads == 2
MaxListingRequests == 4
MaxConsoleTurns == 3
MaxTextLen == 2100
MaxBatchUploads == 2
HugeTextLen == 200000
MaxDeleteRequests == 3
MaxUpdateRequests == 3
MaxContextRequests == 3
MaxFollowedRequests == 2

(***************************************************************************)
(* Program constants.                                                      *)
(***************************************************************************)
chunk_size == 1024
chunk_overlap == 50
batch_size == 100

(***************************************************************************)
(* Input alphabets.                                                        *)
(***************************************************************************)
SP == " "
EmptyStr == <<>>
BlankStr == <<SP>>
TitleA == <<"A">>
TitleA0 == <<"A", "_", "0">>
Titles == {TitleA, TitleA0}

General == <<"general">>
Work == <<"work">>
NoneStr == <<"None">>
Default == <<"default">>
Categories == {General, Work}
EnvNamespaces == {EmptyStr, General}
Namespaces == Categories \cup EnvNamespaces \cup {Default, BlankStr}

ShortText == <<[ch |-> "x", n |-> 11]>>
LongText == <<[ch |-> "y", n |-> 1025]>>
BlankText == <<[ch |-> SP, n |-> 2]>>
Contents == {ShortText, LongText}

\* the messages of the exceptions the collaborators raise
VectorError == <<"pinecone unavailable">>
MongoError == <<"mongo unavailable">>
DelOutcomes == {"ok", "delete_error", "setup_error"}

\* sandbox.py is not running; no text has been handed to the splitter
NoConsole == <<>>
NoDocuments == <<>>

\* no request is being followed call by call
NoPending == <<>>

VARIABLES files, index, PINECONE_NAMESPACE, today, calls, resp, served,
          chat_logs, chat_logs_collection, inflight, console, documents, pending

vars == <<files, index, PINECONE_NAMESPACE, today, calls, resp, served,
          chat_logs, chat_logs_collection, inflight, console, documents, pending>>

\* the console chat of sandbox.py, the text being split and the request
\* followed call by call, which the handlers taken as one step never touch
aside == <<console, documents, pending>>

\* the chat log and the uploads in progress, which the note handlers leave alone
others == <<chat_logs, chat_logs_collection, inflight, aside>>

(***************************************************************************)
(* Python string helpers.                                                  *)
(***************************************************************************)
RECURSIVE LStrip(_)
LStrip(s) ==
    IF s = <<>> THEN <<>>
    ELSE IF Head(s) = SP THEN LStrip(Tail(s)) ELSE s

RECURSIVE RStrip(_)
RStrip(s) ==
    IF s = <<>> THEN <<>>
    ELSE IF s[Len(s)] = SP THEN RStrip(SubSeq(s, 1, Len(s) - 1)) ELSE s

\* a strip() that removes nothing
StripNothing(s) == s

\* str.strip() on a symbol string
Strip(s) == RStrip(LStrip(s))

RECURSIVE LStripRuns(_)
LStripRuns(c) ==
    IF c = <<>> THEN <<>>
    ELSE IF Head(c).ch = SP \/ Head(c).n = 0 THEN LStripRuns(Tail(c)) ELSE c

RECURSIVE RStripRuns(_)
RStripRuns(c) ==
    IF c = <<>> THEN <<>>
    ELSE IF c[Len(c)].ch = SP \/ c[Len(c)].n = 0
         THEN RStripRuns(SubSeq(c, 1, Len(c) - 1)) ELSE c

\* str.strip() on a run-length encoded text
StripText(c) == RStripRuns(LStripRuns(c))

RECURSIVE TextLen(_)
TextLen(c) == IF c = <<>> THEN 0 ELSE Head(c).n + TextLen(Tail(c))

Digits == <<"0", "1", "2", "3", "4", "5", "6", "7", "8", "9">>

\* str(i) for i >= 0
RECURSIVE Decimal(_)
Decimal(i) ==
    IF i < 10 THEN <<Digits[i + 1]>>
    ELSE Decimal(i \div 10) \o <<Digits[(i % 10) + 1]>>

\* f"{filename}_{i}"
RecordId(filename, i) == filename \o <<"_">> \o Decimal(i)

\* str.startswith
StartsWith(s, p) == Len(s) >= Len(p) /\ SubSeq(s, 1, Len(p)) = p

Min(a, b) == IF a < b THEN a ELSE b

(***************************************************************************)
(* Chunker: RecursiveCharacterTextSplitter(chunk_size=1024,                *)
(* chunk_overlap=50, add_start_index=True).create_documents([text]) on a   *)
(* text without separators: the splitter falls through to single           *)
(* characters and merges them greedily, so a chunk is emitted every        *)
(* chunk_size - chunk_overlap characters; whitespace-only text gives no    *)
(* chunk.                                                                  *)
(***************************************************************************)
Stride == chunk_size - chunk_overlap

NumChunks(len) ==
    IF len = 0 THEN 0
    ELSE IF len <= chunk_size THEN 1
    ELSE 1 + ((len - chunk_size) + Stride - 1) \div Stride

\* a splitter that adds the overlap to the chunk size
SplitText_overlap_added(text) ==
    LET body == StripText(text)
        len == TextLen(body)
    IN [i \in 1..NumChunks(len) |->
          [page_content |-> <<[ch |-> body[1].ch,
                               n |-> Min(chunk_size + chunk_overlap,
                                         len - (i - 1) * Stride)]>>,
           start_index |-> (i - 1) * Stride]]

SplitText(text) ==
    LET body == StripText(text)
        len == TextLen(body)
    IN [i \in 1..NumChunks(len) |->
          [page_content |-> <<[ch |-> body[1].ch,
                               n |-> Min(chunk_size, len - (i - 1) * Stride)]>>,
           start_index |-> (i - 1) * Stride]]

(***************************************************************************)
(* Collaborator call log entries (one per call issued by a request).       *)
(***************************************************************************)
\* ok: the call returned; err: the message of the exception it raised otherwise
VectorCall(api, ns, recs, ids, ok) ==
    [api |-> api, ns |-> ns, recs |-> recs, ids |-> ids, title |-> <<>>,
     ok |-> ok, err |-> IF ok THEN <<>> ELSE VectorError]

MongoCall(api, title, ok) ==
    [api |-> api, ns |-> <<>>, recs |-> {}, ids |-> {}, title |-> title,
     ok |-> ok, err |-> IF ok THEN <<>> ELSE MongoError]

IdsOf(recs) == {r.id : r \in recs}

(***************************************************************************)
(* Vector index collaborator: upsert overwrites by ID inside a namespace,  *)
(* delete removes the listed IDs from a namespace.                         *)
(***************************************************************************)
\* the index after create_index_for_model, and the absence of the index
EmptyIndex == [ns \in Namespaces |-> {}]

NoIndex == <<>>

\* pc.has_index(index_name)
has_index(idx) == idx # NoIndex

upsert_records(idx, ns, recs) ==
    [idx EXCEPT ![ns] = {r \in @ : r.id \notin IdsOf(recs)} \cup recs]

\* a delete by ID prefix in place of a delete by ID
index_delete_by_prefix(idx, ids, ns) ==
    [idx EXCEPT ![ns] = {r \in @ : \A id \in ids :
                            \/ Len(r.id) < Len(id)
                            \/ SubSeq(r.id, 1, Len(id)) # id}]

index_delete(idx, ids, ns) ==
    [idx EXCEPT ![ns] = {r \in @ : r.id \notin ids}]

(***************************************************************************)
(* upload_text_to_pinecone(filename, text, category)                       *)
(*   setupFails: a client / describe call before the loop raises           *)
(*   failBatch : the failBatch-th upsert_records call raises (0: none)     *)
(* Result: the index afterwards, the calls issued, whether it raised and   *)
(* the value returned (len(records_to_upsert)).                            *)
(***************************************************************************)
UploadNamespace(env) == IF env = <<>> THEN Default ELSE env

ChunkRecords(filename, text, category) ==
    LET chunks == SplitText(text)
    IN [i \in 1..Len(chunks) |->
          [id |-> RecordId(filename, i - 1),
           chunk_text |-> chunks[i].page_content,
           category |-> category,
           filename |-> filename,
           chunk_index |-> i - 1,
           start_index |-> chunks[i].start_index]]

\* batches that share the record at their border
Batch_overlapping(records, k) ==
    {records[i] : i \in ((k - 1) * batch_size + 1)..Min(k * batch_size + 1, Len(records))}

Batch(records, k) ==
    {records[i] : i \in ((k - 1) * batch_size + 1)..Min(k * batch_size, Len(records))}

\* the upload catching its own exceptions and returning the count anyway
upload_text_to_pinecone_swallow(idx, env, filename, text, category, setupFails, failBatch) ==
    LET namespace == UploadNamespace(env)
        records == ChunkRecords(filename, text, category)
        nb == (Len(records) + batch_size - 1) \div batch_size
        fails == ~setupFails /\ failBatch \in 1..nb
        done == IF setupFails THEN 0 ELSE IF fails THEN failBatch - 1 ELSE nb
        sent == IF setupFails THEN 0 ELSE IF fails THEN failBatch ELSE nb
        written == UNION {Batch(records, k) : k \in 1..done}
        create == ~setupFails /\ ~has_index(idx)
    IN [index |-> IF setupFails THEN idx
                  ELSE upsert_records(IF create THEN EmptyIndex ELSE idx, namespace, written),
        calls |-> <<VectorCall("pc.has_index", <<>>, {}, {}, ~setupFails)>> \o
                  (IF create
                   THEN <<VectorCall("pc.create_index_for_model", <<>>, {}, {}, TRUE)>>
                   ELSE <<>>) \o
                  [k \in 1..sent |->
                     VectorCall("index.upsert_records", namespace,
                                Batch(records, k), IdsOf(Batch(records, k)), k <= done)],
        raised |-> FALSE,
        err |-> <<>>,
        n |-> Len(records)]

\* the upload undoing its upserts when one of them fails
upload_text_to_pinecone_rollback(idx, env, filename, text, category, setupFails, failBatch) ==
    LET namespace == UploadNamespace(env)
        records == ChunkRecords(filename, text, category)
        nb == (Len(records) + batch_size - 1) \div batch_size
        fails == ~setupFails /\ failBatch \in 1..nb
        done == IF setupFails THEN 0 ELSE IF fails THEN failBatch - 1 ELSE nb
        sent == IF setupFails THEN 0 ELSE IF fails THEN failBatch ELSE nb
        written == IF fails THEN {} ELSE UNION {Batch(records, k) : k \in 1..done}
        create == ~setupFails /\ ~has_index(idx)
    IN [index |-> IF setupFails THEN idx
                  ELSE upsert_records(IF create THEN EmptyIndex ELSE idx, namespace, written),
        calls |-> <<VectorCall("pc.has_index", <<>>, {}, {}, ~setupFails)>> \o
                  (IF create
                   THEN <<VectorCall("pc.create_index_for_model", <<>>, {}, {}, TRUE)>>
                   ELSE <<>>) \o
                  [k \in 1..sent |->
                     VectorCall("index.upsert_records", namespace,
                                Batch(records, k), IdsOf(Batch(records, k)), k <= done)],
        raised |-> setupFails \/ fails,
        err |-> IF setupFails \/ fails THEN VectorError ELSE <<>>,
        n |-> Len(records)]

upload_text_to_pinecone(idx, env, filename, text, category, setupFails, failBatch) ==
    LET namespace == UploadNamespace(env)
        records == ChunkRecords(filename, text, category)
        nb == (Len(records) + batch_size - 1) \div batch_size
        fails == ~setupFails /\ failBatch \in 1..nb
        done == IF setupFails THEN 0 ELSE IF fails THEN failBatch - 1 ELSE nb
        sent == IF setupFails THEN 0 ELSE IF fails THEN failBatch ELSE nb
        written == UNION {Batch(records, k) : k \in 1..done}
        create == ~setupFails /\ ~has_index(idx)
    IN [index |-> IF setupFails THEN idx
                  ELSE upsert_records(IF create THEN EmptyIndex ELSE idx, namespace, written),
        calls |-> <<VectorCall("pc.has_index", <<>>, {}, {}, ~setupFails)>> \o
                  (IF create
                   THEN <<VectorCall("pc.create_index_for_model", <<>>, {}, {}, TRUE)>>
                   ELSE <<>>) \o
                  [k \in 1..sent |->
                     VectorCall("index.upsert_records", namespace,
                                Batch(records, k), IdsOf(Batch(records, k)), k <= done)],
        raised |-> setupFails \/ fails,
        err |-> IF setupFails \/ fails THEN VectorError ELSE <<>>,
        n |-> Len(records)]

(***************************************************************************)
(* delete_file_from_pinecone(filename, num_chunks, category)               *)
(*   outcome "setup_error" : a client call raises, the function raises     *)
(*           "delete_error": index.delete raises, deleted=False returned   *)
(*           "ok"          : index.delete accepted, deleted=True returned  *)
(* Without an index no deletion is attempted and deleted=False returned.   *)
(***************************************************************************)
DeleteNamespace(env, category) ==
    LET namespace == IF category # NoneStr THEN category ELSE env
    IN IF namespace = <<>> THEN Default ELSE namespace

\* range(1, num_chunks) in place of range(num_chunks)
IdsToDeleteFromOne(filename, num_chunks) ==
    {RecordId(filename, i) : i \in 1..(num_chunks - 1)}

\* range(num_chunks - 1) in place of range(num_chunks)
IdsToDeleteButLast(filename, num_chunks) ==
    {RecordId(filename, i) : i \in 0..(num_chunks - 2)}

IdsToDelete(filename, num_chunks) ==
    {RecordId(filename, i) : i \in 0..(num_chunks - 1)}

\* the except clause of index.delete reporting success as well
delete_file_from_pinecone_always_deleted(idx, env, filename, num_chunks, category, outcome) ==
    LET namespace == DeleteNamespace(env, category)
        ids_to_delete == IdsToDelete(filename, num_chunks)
        attempt == outcome # "setup_error" /\ has_index(idx)
    IN [index |-> IF attempt /\ outcome = "ok"
                  THEN index_delete(idx, ids_to_delete, namespace) ELSE idx,
        calls |-> <<VectorCall("pc.has_index", <<>>, {}, {}, outcome # "setup_error")>> \o
                  (IF attempt
                   THEN <<VectorCall("index.delete", namespace, {}, ids_to_delete, outcome = "ok")>>
                   ELSE <<>>),
        raised |-> outcome = "setup_error",
        deleted |-> TRUE]

\* a deletion that reports success only when every ID was in the namespace
delete_file_from_pinecone_verifying(idx, env, filename, num_chunks, category, outcome) ==
    LET namespace == DeleteNamespace(env, category)
        ids_to_delete == IdsToDelete(filename, num_chunks)
        attempt == outcome # "setup_error" /\ has_index(idx)
    IN [index |-> IF attempt /\ outcome = "ok"
                  THEN index_delete(idx, ids_to_delete, namespace) ELSE idx,
        calls |-> <<VectorCall("pc.has_index", <<>>, {}, {}, outcome # "setup_error")>> \o
                  (IF attempt
                   THEN <<VectorCall("index.delete", namespace, {}, ids_to_delete, outcome = "ok")>>
                   ELSE <<>>),
        raised |-> outcome = "setup_error",
        deleted |-> /\ attempt
                    /\ outcome = "ok"
                    /\ ids_to_delete \subseteq IdsOf(idx[namespace])]

delete_file_from_pinecone(idx, env, filename, num_chunks, category, outcome) ==
    LET namespace == DeleteNamespace(env, category)
        ids_to_delete == IdsToDelete(filename, num_chunks)
        attempt == outcome # "setup_error" /\ has_index(idx)
    IN [index |-> IF attempt /\ outcome = "ok"
                  THEN index_delete(idx, ids_to_delete, namespace) ELSE idx,
        calls |-> <<VectorCall("pc.has_index", <<>>, {}, {}, outcome # "setup_error")>> \o
                  (IF attempt
                   THEN <<VectorCall("index.delete", namespace, {}, ids_to_delete, outcome = "ok")>>
                   ELSE <<>>),
        raised |-> outcome = "setup_error",
        deleted |-> attempt /\ outcome = "ok"]

(***************************************************************************)
(* Document store collaborator (collection "files", in insertion order).   *)
(***************************************************************************)
Matches(fs, title) == {i \in 1..Len(fs) : fs[i].title = title}

FirstMatch(fs, title) == CHOOSE i \in Matches(fs, title) : \A j \in Matches(fs, title) : i <= j

\* files_collection.find_one({"title": title}): the first match, or None
find_one(fs, title) ==
    IF Matches(fs, title) = {} THEN [found |-> FALSE, doc |-> <<>>]
    ELSE [found |-> TRUE, doc |-> fs[FirstMatch(fs, title)]]

\* a collection with a unique index on the title, which refuses a second record
insert_one_unique(fs, doc) == IF Matches(fs, doc.title) = {} THEN Append(fs, doc) ELSE fs

insert_one(fs, doc) == Append(fs, doc)

\* files_collection.delete_one({"title": title})
delete_one(fs, title) ==
    IF Matches(fs, title) = {} THEN [files |-> fs, deleted_count |-> 0]
    ELSE LET k == FirstMatch(fs, title)
         IN [files |-> SubSeq(fs, 1, k - 1) \o SubSeq(fs, k + 1, Len(fs)),
             deleted_count |-> 1]

\* files_collection.update_one({"title": original_title}, {"$set": {...}})
\* matched_count reported in place of modified_count
update_one_matched(fs, original_title, new_title, new_content, new_category, new_date) ==
    IF Matches(fs, original_title) = {} THEN [files |-> fs, modified_count |-> 0]
    ELSE LET k == FirstMatch(fs, original_title)
             doc == [fs[k] EXCEPT !.title = new_title, !.content = new_content,
                                  !.category = new_category, !.date = new_date]
         IN [files |-> [fs EXCEPT ![k] = doc], modified_count |-> 1]

update_one(fs, original_title, new_title, new_content, new_category, new_date) ==
    IF Matches(fs, original_title) = {} THEN [files |-> fs, modified_count |-> 0]
    ELSE LET k == FirstMatch(fs, original_title)
             doc == [fs[k] EXCEPT !.title = new_title, !.content = new_content,
                                  !.category = new_category, !.date = new_date]
         IN [files |-> [fs EXCEPT ![k] = doc],
             modified_count |-> IF doc = fs[k] THEN 0 ELSE 1]

FileRecord(title, content, category, date, num_chunks) ==
    [title |-> title, content |-> content, category |-> category,
     date |-> date, num_chunks |-> num_chunks]

\* a lookup that answers with a default record when the title is absent
get_file_record_or_default(fs, title) ==
    LET document == find_one(fs, title)
    IN IF document.found THEN document
       ELSE [found |-> TRUE, doc |-> FileRecord(title, <<>>, General, 1, 0)]

\* get_file_record_from_mongo(title): the record, or None
get_file_record_from_mongo(fs, title) ==
    LET document == find_one(fs, title)
    IN IF document.found
       THEN [found |-> TRUE,
             doc |-> FileRecord(document.doc.title, document.doc.content,
                                document.doc.category, document.doc.date,
                                document.doc.num_chunks)]
       ELSE [found |-> FALSE, doc |-> <<>>]

\* add_file_record(title, content, category, date, num_chunks): the lookup of
\* line 170 and the insert of line 173, with the HTTPException raised
\*   mfail: which document-store call raises (0: none, 1: find_one,
\*          2: insert_one)
AddResult(fs, cs, status, msg, arg) ==
    [files |-> fs, calls |-> cs, status |-> status, msg |-> msg, arg |-> arg]

\* a variant that inserts before it looks the title up
add_file_record_insert_first(fs, title, content, category, date, num_chunks, mfail) ==
    LET c_find == MongoCall("files.find_one", title, mfail # 1)
        c_insert == MongoCall("files.insert_one", title, mfail # 2)
        inserted == insert_one(fs, FileRecord(title, content, category, date, num_chunks))
    IN IF mfail = 2
       THEN AddResult(fs, <<c_insert>>, 500,
                      "Failed to add file record to MongoDB: ", MongoError)
       ELSE IF mfail = 1
       THEN AddResult(inserted, <<c_insert, c_find>>, 500,
                      "Failed to add file record to MongoDB: ", MongoError)
       ELSE IF find_one(fs, title).found
       THEN AddResult(inserted, <<c_insert, c_find>>, 409,
                      "Note with title already exists in MongoDB: ", title)
       ELSE AddResult(inserted, <<c_insert, c_find>>, 200, "", <<>>)

\* a variant whose failed insert has stored the record all the same
add_file_record_stored_on_error(fs, title, content, category, date, num_chunks, mfail) ==
    LET c_find == MongoCall("files.find_one", title, mfail # 1)
        c_insert == MongoCall("files.insert_one", title, mfail # 2)
        inserted == insert_one(fs, FileRecord(title, content, category, date, num_chunks))
    IN IF mfail = 1
       THEN AddResult(fs, <<c_find>>, 500,
                      "Failed to add file record to MongoDB: ", MongoError)
       ELSE IF find_one(fs, title).found
       THEN AddResult(fs, <<c_find>>, 409,
                      "Note with title already exists in MongoDB: ", title)
       ELSE IF mfail = 2
       THEN AddResult(inserted, <<c_find, c_insert>>, 500,
                      "Failed to add file record to MongoDB: ", MongoError)
       ELSE AddResult(inserted, <<c_find, c_insert>>, 200, "", <<>>)

add_file_record(fs, title, content, category, date, num_chunks, mfail) ==
    LET c_find == MongoCall("files.find_one", title, mfail # 1)
        c_insert == MongoCall("files.insert_one", title, mfail # 2)
    IN IF mfail = 1
       THEN AddResult(fs, <<c_find>>, 500,
                      "Failed to add file record to MongoDB: ", MongoError)
       ELSE IF find_one(fs, title).found
       THEN AddResult(fs, <<c_find>>, 409,
                      "Note with title already exists in MongoDB: ", title)
       ELSE IF mfail = 2
       THEN AddResult(fs, <<c_find, c_insert>>, 500,
                      "Failed to add file record to MongoDB: ", MongoError)
       ELSE AddResult(insert_one(fs, FileRecord(title, content, category, date, num_chunks)),
                      <<c_find, c_insert>>, 200, "", <<>>)

\* get_all_file_records(): one FileRecord per document that has a title and
\* a content, in the order find() yields them; the category, the date and
\* the num_chunks of a document lacking them are defaulted
get_all_file_records_no_chunks(fs) ==
    [k \in 1..Len(fs) |->
        FileRecord(fs[k].title, fs[k].content, fs[k].category, fs[k].date, 0)]

get_all_file_records(fs) ==
    [k \in 1..Len(fs) |->
        FileRecord(fs[k].title, fs[k].content, fs[k].category, fs[k].date,
                   fs[k].num_chunks)]

(***************************************************************************)
(* Responses.                                                              *)
(***************************************************************************)
Request(title, content, category) ==
    [title |-> title, content |-> content, category |-> category]

NoBody == [none |-> TRUE]

Response(op, title, request, status, msg, arg, body) ==
    [op |-> op, title |-> title, request |-> request, status |-> status,
     detail |-> [msg |-> msg, arg |-> arg], body |-> body]

Outcome(fs, idx, cs, r) == [files |-> fs, index |-> idx, calls |-> cs, resp |-> r]

(***************************************************************************)
(* POST /upload-text/                                                      *)
(*   mfail: which document-store call of the request raises (0: none).     *)
(***************************************************************************)
upload_text_with_metadata(fs, idx, env, date, title, content, category, setupFails, failBatch, mfail) ==
    LET req == Request(title, content, category)
        Err(cs, idx2, status, msg, arg) ==
            Outcome(fs, idx2, cs, Response("upload", title, req, status, msg, arg, NoBody))
        up == upload_text_to_pinecone(idx, env, title, content, category,
                                      setupFails, failBatch)
        added == add_file_record(fs, title, content, category, date, up.n, mfail)
    IN IF Strip(title) = <<>> THEN Err(<<>>, idx, 400, "Title cannot be empty.", <<>>)
       ELSE IF StripText(content) = <<>> THEN Err(<<>>, idx, 400, "Content cannot be empty.", <<>>)
       ELSE IF Strip(category) = <<>> THEN Err(<<>>, idx, 400, "Category cannot be empty.", <<>>)
       ELSE IF up.raised
            THEN Err(up.calls, up.index, 500, "Pinecone upload failed: ", up.err)
       ELSE IF added.status # 200
            THEN Outcome(added.files, up.index, up.calls \o added.calls,
                         Response("upload", title, req, added.status, added.msg,
                                  added.arg, NoBody))
       ELSE Outcome(added.files,
                    up.index,
                    up.calls \o added.calls,
                    Response("upload", title, req, 200, "", <<>>,
                             [num_chunks |-> up.n,
                              pinecone_status |-> "Success",
                              mongo_status |-> "Success"]))

(***************************************************************************)
(* DELETE /files/?title=                                                   *)
(***************************************************************************)
delete_file_and_vectors(fs, idx, env, title, delOutcome, mfail) ==
    LET req == Request(title, <<>>, <<>>)
        Err(cs, idx2, status, msg, arg) ==
            Outcome(fs, idx2, cs, Response("delete", title, req, status, msg, arg, NoBody))
        file_record == get_file_record_from_mongo(fs, title)
        c_find == MongoCall("files.find_one", title, mfail # 1)
        c_delete == MongoCall("files.delete_one", title, mfail # 2)
        pc == delete_file_from_pinecone(idx, env, title, file_record.doc.num_chunks,
                                        file_record.doc.category, delOutcome)
        pinecone_deleted == ~pc.raised /\ pc.deleted
        pinecone_msg == IF pc.raised THEN "Error during Pinecone deletion: "
                        ELSE IF pc.deleted
                             THEN "Deletion request sent to Pinecone. Verify count if critical."
                        ELSE "Error deleting from Pinecone: "
        del == delete_one(fs, title)
    IN IF mfail = 1 THEN Err(<<c_find>>, idx, 500, "Internal Server Error", <<>>)
       ELSE IF ~file_record.found
            THEN Err(<<c_find>>, idx, 404, "Note not found in MongoDB: ", title)
       ELSE IF mfail = 2
            THEN Err(<<c_find>> \o pc.calls \o <<c_delete>>, pc.index, 500,
                     "Failed to delete note from MongoDB: ", MongoError)
       ELSE Outcome(del.files, pc.index,
                    <<c_find>> \o pc.calls \o <<c_delete>>,
                    Response("delete", title, req, 200, "", <<>>,
                             [deleted_mongo |-> del.deleted_count > 0,
                              deleted_pinecone |-> pinecone_deleted,
                              mongo_message |-> IF del.deleted_count > 0
                                                THEN "deleted from MongoDB."
                                                ELSE "not found in MongoDB or not deleted.",
                              pinecone_message |-> pinecone_msg,
                              pinecone_error |-> IF pinecone_deleted THEN <<>> ELSE VectorError]))

(***************************************************************************)
(* PUT /files/{original_title}                                             *)
(***************************************************************************)
update_file(fs, idx, env, date, original_title, title, content, category, delOutcome, setupFails, failBatch, mfail) ==
    LET req == Request(title, content, category)
        Err(cs, idx2, fs2, status, msg, arg) ==
            Outcome(fs2, idx2, cs,
                    Response("update", original_title, req, status, msg, arg, NoBody))
        existing == get_file_record_from_mongo(fs, original_title)
        existing_record == existing.doc
        c_find == MongoCall("files.find_one", original_title, mfail # 1)
        changed == existing_record.content # content
                   \/ existing_record.category # category
                   \/ existing_record.title # title
        pcd == delete_file_from_pinecone(idx, env, existing_record.title,
                                         existing_record.num_chunks,
                                         existing_record.category, delOutcome)
        up == upload_text_to_pinecone(pcd.index, env, title, content, category,
                                      setupFails, failBatch)
        \* the try block of lines 405-422: delete, then upload unless delete raised
        idx2 == IF ~changed THEN idx ELSE IF pcd.raised THEN pcd.index ELSE up.index
        pcalls == IF ~changed THEN <<>>
                  ELSE IF pcd.raised THEN pcd.calls ELSE pcd.calls \o up.calls
        upd == update_one(fs, original_title, title, content, category, date)
        c_update == MongoCall("files.update_one", original_title, mfail # 2)
        updated_note == get_file_record_from_mongo(upd.files, title)
        c_find2 == MongoCall("files.find_one", title, mfail # 3)
    IN IF mfail = 1 THEN Err(<<c_find>>, idx, fs, 500, "Internal Server Error", <<>>)
       ELSE IF ~existing.found
            THEN Err(<<c_find>>, idx, fs, 404, "Note not found in MongoDB: ", original_title)
       ELSE IF mfail = 2
            THEN Err(<<c_find>> \o pcalls \o <<c_update>>, idx2, fs, 500,
                     "Failed to update note in MongoDB: ", MongoError)
       ELSE IF upd.modified_count = 0
            THEN Err(<<c_find>> \o pcalls \o <<c_update>>, idx2, upd.files, 400,
                     "No changes detected or update failed in MongoDB.", <<>>)
       ELSE IF mfail = 3
            THEN Err(<<c_find>> \o pcalls \o <<c_update, c_find2>>, idx2, upd.files, 500,
                     "Internal Server Error", <<>>)
       ELSE IF ~updated_note.found
            THEN Err(<<c_find>> \o pcalls \o <<c_update, c_find2>>, idx2, upd.files, 500,
                     "Failed to retrieve updated note from MongoDB.", <<>>)
       ELSE Outcome(upd.files, idx2,
                    <<c_find>> \o pcalls \o <<c_update, c_find2>>,
                    Response("update", original_title, req, 200, "", <<>>, updated_note.doc))

(***************************************************************************)
(* The service: state after start-up, one action per request handler, and  *)
(* the delivery of the response.  Requests are served one at a time: resp  *)
(* and calls hold the response and the collaborator calls of the request   *)
(* being answered until Respond hands the response to the client.          *)
(***************************************************************************)
NoRequest == Response("none", <<>>, Request(<<>>, <<>>, <<>>), 0, "", <<>>, NoBody)

Idle == resp.op = "none"

\* no request is being handled in parallel
NoWorkers == <<>>

\* the stores are empty, the index exists (line 83 raises otherwise)
InitStores ==
    /\ files = <<>>
    /\ index = EmptyIndex
    /\ PINECONE_NAMESPACE \in EnvNamespaces
    /\ today = 1
    /\ calls = <<>>
    /\ resp = NoRequest
    /\ served = 0
    /\ chat_logs = <<>>
    /\ console = NoConsole
    /\ documents = NoDocuments
    /\ pending = NoPending

Init ==
    /\ InitStores
    /\ chat_logs_collection = TRUE
    /\ inflight = NoWorkers

CanServe(limit) == Idle /\ served < limit

Apply(out) ==
    /\ Len(out.files) <= MaxFiles
    /\ files' = out.files
    /\ index' = out.index
    /\ calls' = out.calls
    /\ resp' = out.resp
    /\ served' = served + 1
    /\ UNCHANGED <<PINECONE_NAMESPACE, today, others>>

\* the requests tried: every well-formed one, and one with each field blank
UploadRequests ==
    {Request(t, c, k) : t \in Titles, c \in Contents, k \in Categories}
    \cup {Request(t, ShortText, General) : t \in {EmptyStr, BlankStr}}
    \cup {Request(TitleA, BlankText, General), Request(TitleA, ShortText, BlankStr)}

\* the bodies of the updates tried: every well-formed one, and one with an
\* empty category, which UploadFileRequest accepts
UpdateRequests ==
    {Request(t, c, k) : t \in Titles, c \in Contents, k \in Categories}
    \cup {Request(TitleA, ShortText, EmptyStr)}

\* the upsert_records calls an upload of this content issues
NumBatches(content) == (Len(SplitText(content)) + batch_size - 1) \div batch_size

\* which upsert_records call raises (0: none), when failures are possible
FailBatches(content, canFail) == IF canFail THEN 0..NumBatches(content) ELSE {0}

\* the failures tried are those of calls the request issues: S when the
\* call is issued, the outcome without failure otherwise
IfIssued(issued, S, none) == IF issued THEN S ELSE {none}

\* the request passes the validation of lines 273-278
IsValid(rq) ==
    Strip(rq.title) # <<>> /\ StripText(rq.content) # <<>> /\ Strip(rq.category) # <<>>

\* the update body differs from the stored record (lines 402-404)
Changes(fs, original_title, rq) ==
    /\ Matches(fs, original_title) # {}
    /\ LET doc == fs[FirstMatch(fs, original_title)]
       IN doc.content # rq.content \/ doc.category # rq.category \/ doc.title # rq.title

UploadWith(SetupFails, canFail, MFail, limit) ==
    /\ CanServe(limit)
    /\ \E rq \in UploadRequests :
         \E setupFails \in IfIssued(IsValid(rq), SetupFails, FALSE) :
           \E failBatch \in FailBatches(rq.content, canFail /\ IsValid(rq) /\ ~setupFails) :
             \E mfail \in IfIssued(IsValid(rq) /\ ~setupFails /\ failBatch = 0, MFail, 0) :
               \E out \in {upload_text_with_metadata(
                              files, index, PINECONE_NAMESPACE, today,
                              rq.title, rq.content, rq.category,
                              setupFails, failBatch, mfail)} : Apply(out)

DeleteWith(DelOutcome, MFail, limit) ==
    /\ CanServe(limit)
    /\ \E title \in Titles, mfail \in MFail :
         \E delOutcome \in IfIssued(mfail # 1 /\ Matches(files, title) # {}, DelOutcome, "ok") :
           \E out \in {delete_file_and_vectors(
                          files, index, PINECONE_NAMESPACE,
                          title, delOutcome, mfail)} : Apply(out)

UpdateWith(DelOutcome, SetupFails, canFail, MFail, limit) ==
    /\ CanServe(limit)
    /\ \E original_title \in Titles, rq \in UpdateRequests, mfail \in MFail :
         \E delOutcome \in IfIssued(mfail # 1 /\ Changes(files, original_title, rq),
                                    DelOutcome, "ok") :
           \E setupFails \in IfIssued(mfail # 1 /\ Changes(files, original_title, rq)
                                        /\ delOutcome # "setup_error", SetupFails, FALSE) :
             \E failBatch \in FailBatches(rq.content,
                                          canFail /\ mfail # 1 /\ ~setupFails
                                            /\ Changes(files, original_title, rq)
                                            /\ delOutcome # "setup_error") :
               \E out \in {update_file(
                              files, index, PINECONE_NAMESPACE, today,
                              original_title, rq.title, rq.content, rq.category,
                              delOutcome, setupFails, failBatch, mfail)} : Apply(out)

\* requests during which any collaborator call may fail
Upload == UploadWith(BOOLEAN, TRUE, 0..2, MaxRequests)

Delete == DeleteWith(DelOutcomes, 0..2, MaxRequests)

Update == UpdateWith(DelOutcomes, BOOLEAN, TRUE, 0..3, MaxRequests)

\* requests during which every collaborator call succeeds
UploadOk == UploadWith({FALSE}, FALSE, {0}, MaxRequestsNoFail)

DeleteOk == DeleteWith({"ok"}, {0}, MaxRequestsNoFail)

UpdateOk == UpdateWith({"ok"}, {FALSE}, FALSE, {0}, MaxRequestsNoFail)

\* the response leaves the server; the next request can be served
Respond ==
    /\ ~Idle
    /\ resp' = NoRequest
    /\ calls' = <<>>
    /\ UNCHANGED <<files, index, PINECONE_NAMESPACE, today, served, others>>

\* datetime.now().strftime("%Y-%m-%d") changes when the day does
NextDay ==
    /\ Idle
    /\ today < MaxDate
    /\ today' = today + 1
    /\ UNCHANGED <<files, index, PINECONE_NAMESPACE, calls, resp, served, others>>

Next == Upload \/ Delete \/ Update \/ Respond \/ NextDay

Spec == Init /\ [][Next]_vars

\* the service when no collaborator call ever fails
NextNoFail == UploadOk \/ DeleteOk \/ UpdateOk \/ Respond \/ NextDay

SpecNoFail == Init /\ [][NextNoFail]_vars

(***************************************************************************)
(* The chat path: get_context, get_response_from_llm, add_chat_log_entry   *)
(* and POST /chat.  A conversation is a sequence of turns, each with a     *)
(* role and one text part; texts are strings of characters.                *)
(***************************************************************************)
Upper == <<"A", "G", "H", "R">>
LowerOf == <<"a", "g", "h", "r">>

LowerChar(c) ==
    IF \E i \in 1..Len(Upper) : Upper[i] = c
    THEN LowerOf[CHOOSE i \in 1..Len(Upper) : Upper[i] = c]
    ELSE c

\* str.lower()
Lower(s) == [i \in 1..Len(s) |-> LowerChar(s[i])]

\* w in s
Contains(s, w) == \E i \in 1..(Len(s) - Len(w) + 1) : SubSeq(s, i, i + Len(w) - 1) = w

keywords == << <<"r", "a", "g">>, <<"R", "A", "G">> >>

QueryHi == <<"h", "i">>
QueryRag == <<"r", "a", "g">>
QueryMixed == <<"a", " ", "R", "a", "g", "?">>
Queries == {QueryHi, QueryRag, QueryMixed}

Replies == {<<"k", "a">>, <<"r", "a", "g", " ", "k", "a">>}

Turn(role, text) == [role |-> role, parts |-> <<[text |-> text]>>]

Conversations ==
    {<<>>}
    \cup {<<Turn("user", q)>> : q \in Queries}
    \cup {<<Turn("user", QueryRag), Turn("assistant", <<"k", "a">>), Turn("user", q)>> :
            q \in Queries}

\* the messages of the exceptions raised by the chat path itself
IndexError == <<"list index out of range">>
ModelError == <<"model unavailable">>

\* a context: None, or the chunk text of a hit
None == [some |-> FALSE, text |-> <<>>]
Some(text) == [some |-> TRUE, text |-> text]

\* truth value of a context in an if statement
Truthy(context) == context.some /\ context.text # <<>>

\* the "for word in keywords" loop reaches a word contained in the lowered input
Triggered(user_input) ==
    \E k \in 1..Len(keywords) : Contains(Lower(user_input), keywords[k])

\* the records a search of the namespace can rank first
Candidates(idx, namespace) == IF has_index(idx) THEN idx[namespace] ELSE {}

\* the "top_k" of the query of lines 91-96
top_k == 10

\* the records of a set in a fixed order
RECURSIVE Enumerated(_)
Enumerated(S) ==
    IF S = {} THEN <<>>
    ELSE LET x == CHOOSE y \in S : TRUE IN <<x>> \o Enumerated(S \ {x})

\* a ranking of the namespace that puts the record hit first
RankedFirst(idx, namespace, hit) ==
    IF Candidates(idx, namespace) = {} THEN <<>>
    ELSE <<hit>> \o Enumerated(Candidates(idx, namespace) \ {hit})

\* index.search(namespace, query): the query.top_k first records of the
\* namespace in the order of their similarity to query.inputs.text, which
\* the index computes and the caller cannot tell: ranking
index_search(idx, namespace, query, ranking) ==
    [hits |-> SubSeq(ranking, 1, Min(query.top_k, Len(ranking)))]

SearchCall(namespace, query, hits, ok) ==
    [api |-> "index.search", ns |-> namespace,
     recs |-> {hits[i] : i \in 1..Len(hits)}, ids |-> {}, title |-> <<>>,
     ok |-> ok, err |-> IF ok THEN <<>> ELSE VectorError,
     top_k |-> query.top_k, text |-> query.inputs.text, hits |-> hits]

\* get_context that searches whatever the input holds
get_context_always(idx, namespace, user_input, searchFails, ranking) ==
    LET query == [top_k |-> top_k, inputs |-> [text |-> user_input]]
        results == index_search(idx, namespace, query, ranking)
    IN IF searchFails \/ ~has_index(idx)
       THEN [calls |-> <<SearchCall(namespace, query, <<>>, FALSE)>>,
             raised |-> TRUE, err |-> VectorError, context |-> None]
       ELSE IF results.hits = <<>>
       THEN [calls |-> <<SearchCall(namespace, query, <<>>, TRUE)>>,
             raised |-> TRUE, err |-> IndexError, context |-> None]
       ELSE [calls |-> <<SearchCall(namespace, query, results.hits, TRUE)>>,
             raised |-> FALSE, err |-> <<>>,
             context |-> Some(results.hits[1].chunk_text)]

\* get_context that returns the text of the last hit
get_context_last_hit(idx, namespace, user_input, searchFails, ranking) ==
    LET query == [top_k |-> top_k, inputs |-> [text |-> user_input]]
        results == index_search(idx, namespace, query, ranking)
    IN IF ~Triggered(user_input)
       THEN [calls |-> <<>>, raised |-> FALSE, err |-> <<>>, context |-> None]
       ELSE IF searchFails \/ ~has_index(idx)
       THEN [calls |-> <<SearchCall(namespace, query, <<>>, FALSE)>>,
             raised |-> TRUE, err |-> VectorError, context |-> None]
       ELSE IF results.hits = <<>>
       THEN [calls |-> <<SearchCall(namespace, query, <<>>, TRUE)>>,
             raised |-> TRUE, err |-> IndexError, context |-> None]
       ELSE [calls |-> <<SearchCall(namespace, query, results.hits, TRUE)>>,
             raised |-> FALSE, err |-> <<>>,
             context |-> Some(results.hits[Len(results.hits)].chunk_text)]

(***************************************************************************)
(* get_context(user_input)                                                 *)
(*   searchFails: index.search raises                                      *)
(*   ranking    : the records of the namespace, most similar first         *)
(* Nothing catches the exception of index.search nor the IndexError of     *)
(* hits[0] on an empty hit list.                                           *)
(***************************************************************************)
get_context(idx, namespace, user_input, searchFails, ranking) ==
    LET query == [top_k |-> top_k, inputs |-> [text |-> user_input]]
        results == index_search(idx, namespace, query, ranking)
    IN IF ~Triggered(user_input)
       THEN [calls |-> <<>>, raised |-> FALSE, err |-> <<>>, context |-> None]
       ELSE IF searchFails \/ ~has_index(idx)
       THEN [calls |-> <<SearchCall(namespace, query, <<>>, FALSE)>>,
             raised |-> TRUE, err |-> VectorError, context |-> None]
       ELSE IF results.hits = <<>>
       THEN [calls |-> <<SearchCall(namespace, query, <<>>, TRUE)>>,
             raised |-> TRUE, err |-> IndexError, context |-> None]
       ELSE [calls |-> <<SearchCall(namespace, query, results.hits, TRUE)>>,
             raised |-> FALSE, err |-> <<>>,
             context |-> Some(results.hits[1].chunk_text)]

\* the persona of line 15 and the two parts of the clause of line 17, each a
\* fixed string, written as one character of the text they belong to
Persona == <<[ch |-> "persona", n |-> 1]>>
DirectiveHead == <<[ch |-> "use-this-information ", n |-> 1]>>
DirectiveTail == <<[ch |-> " to-answer-nothing-unrelated", n |-> 1]>>

\* the system instruction of lines 15-17
system_instruction(context) ==
    IF Truthy(context)
    THEN Persona \o DirectiveHead \o context.text \o DirectiveTail
    ELSE Persona

\* text: the text of the response
ModelCall(contents, context, ok, text) ==
    [api |-> "models.generate_content", ns |-> <<>>, recs |-> {}, ids |-> {},
     title |-> <<>>, ok |-> ok, err |-> IF ok THEN <<>> ELSE ModelError,
     contents |-> contents, context |-> context,
     system_instruction |-> system_instruction(context), text |-> text]

\* get_response_from_llm with the clause appended whatever the context
get_response_from_llm_clause_always(contents, context, llmFails, reply) ==
    [calls |-> <<[ModelCall(contents, IF Truthy(context) THEN context ELSE None,
                            ~llmFails, IF llmFails THEN <<>> ELSE reply)
                  EXCEPT !.system_instruction =
                      Persona \o DirectiveHead \o context.text \o DirectiveTail]>>,
     raised |-> llmFails,
     text |-> reply]

\* get_response_from_llm(contents, context): the context joins the system
\* instruction when it is truthy
\* the exception of generate_content caught and answered as an empty reply
get_response_from_llm_swallow(contents, context, llmFails, reply) ==
    [calls |-> <<ModelCall(contents, IF Truthy(context) THEN context ELSE None,
                           ~llmFails, IF llmFails THEN <<>> ELSE reply)>>,
     raised |-> FALSE,
     text |-> IF llmFails THEN <<>> ELSE reply]

get_response_from_llm(contents, context, llmFails, reply) ==
    [calls |-> <<ModelCall(contents, IF Truthy(context) THEN context ELSE None,
                           ~llmFails, IF llmFails THEN <<>> ELSE reply)>>,
     raised |-> llmFails,
     text |-> reply]

ChatLogEntry(user_prompt, llm_response, timestamp) ==
    [user_prompt |-> user_prompt, llm_response |-> llm_response, timestamp |-> timestamp]

\* add_chat_log_entry letting the exception of insert_one through
add_chat_log_entry_raising(logs, collection, user_prompt, llm_response, timestamp, insertFails) ==
    IF ~collection
    THEN [chat_logs |-> logs, calls |-> <<>>, raised |-> FALSE, ok |-> FALSE]
    ELSE IF insertFails
    THEN [chat_logs |-> logs,
          calls |-> <<MongoCall("chat_logs.insert_one", <<>>, FALSE)>>,
          raised |-> TRUE, ok |-> FALSE]
    ELSE [chat_logs |-> Append(logs, ChatLogEntry(user_prompt, llm_response, timestamp)),
          calls |-> <<MongoCall("chat_logs.insert_one", <<>>, TRUE)>>,
          raised |-> FALSE, ok |-> TRUE]

\* add_chat_log_entry keeping only the latest entry
add_chat_log_entry_replacing(logs, collection, user_prompt, llm_response, timestamp, insertFails) ==
    IF ~collection
    THEN [chat_logs |-> logs, calls |-> <<>>, raised |-> FALSE, ok |-> FALSE]
    ELSE IF insertFails
    THEN [chat_logs |-> logs,
          calls |-> <<MongoCall("chat_logs.insert_one", <<>>, FALSE)>>,
          raised |-> FALSE, ok |-> FALSE]
    ELSE [chat_logs |-> <<ChatLogEntry(user_prompt, llm_response, timestamp)>>,
          calls |-> <<MongoCall("chat_logs.insert_one", <<>>, TRUE)>>,
          raised |-> FALSE, ok |-> TRUE]

\* add_chat_log_entry(user_prompt, llm_response): True when the entry is written
add_chat_log_entry(logs, collection, user_prompt, llm_response, timestamp, insertFails) ==
    IF ~collection
    THEN [chat_logs |-> logs, calls |-> <<>>, raised |-> FALSE, ok |-> FALSE]
    ELSE IF insertFails
    THEN [chat_logs |-> logs,
          calls |-> <<MongoCall("chat_logs.insert_one", <<>>, FALSE)>>,
          raised |-> FALSE, ok |-> FALSE]
    ELSE [chat_logs |-> Append(logs, ChatLogEntry(user_prompt, llm_response, timestamp)),
          calls |-> <<MongoCall("chat_logs.insert_one", <<>>, TRUE)>>,
          raised |-> FALSE, ok |-> TRUE]

ChatRequest(prompt) == [prompt |-> prompt]

ChatOutcome(logs, cs, r) == [chat_logs |-> logs, calls |-> cs, resp |-> r]

\* the answer to a request whose handler raised
Unhandled(op, request, logs, cs) ==
    ChatOutcome(logs, cs, Response(op, <<>>, request, 500, "Internal Server Error", <<>>, NoBody))

\* post_chat appending the reply in front of the conversation
post_chat_prepend(prompt, turn) == <<turn>> \o prompt

\* request.prompt.append(Content(role="assistant", parts=[Part(text=...)]))
prompt_append(prompt, turn) == Append(prompt, turn)

(***************************************************************************)
(* POST /chat                                                              *)
(*   get_context is called once in the if condition and, when that gave a  *)
(*   truthy context, a second time for the value (searchFails2, ranking2). *)
(***************************************************************************)
post_chat(idx, namespace, logs, collection, now, prompt, searchFails1, ranking1, searchFails2, ranking2, llmFails, reply, logFails) ==
    LET request == ChatRequest(prompt)
        user_input == prompt[Len(prompt)].parts[1].text
        first == get_context(idx, namespace, user_input, searchFails1,
                             ranking1)
        second == get_context(idx, namespace, user_input, searchFails2,
                              ranking2)
        again == ~first.raised /\ Truthy(first.context)
        context == IF again THEN second.context ELSE None
        lookup == IF again THEN first.calls \o second.calls ELSE first.calls
        result == get_response_from_llm(prompt, context, llmFails, reply)
        llm_response_text == result.text
        answered == prompt_append(prompt, Turn("assistant", llm_response_text))
        log == add_chat_log_entry(logs, collection, user_input,
                                  answered[Len(answered)].parts[1].text, now, logFails)
    IN IF prompt = <<>> THEN Unhandled("chat", request, logs, <<>>)
       ELSE IF first.raised THEN Unhandled("chat", request, logs, first.calls)
       ELSE IF again /\ second.raised THEN Unhandled("chat", request, logs, lookup)
       ELSE IF result.raised THEN Unhandled("chat", request, logs, lookup \o result.calls)
       ELSE IF log.raised
            THEN Unhandled("chat", request, logs, lookup \o result.calls \o log.calls)
       ELSE ChatOutcome(log.chat_logs, lookup \o result.calls \o log.calls,
                        Response("chat", <<>>, request, 200, "", <<>>, [prompt |-> answered]))

\* a record standing for "no hit" where the search has nothing to rank
NoHit == [chunk_text |-> <<>>]

Hits == IF Candidates(index, PINECONE_NAMESPACE) = {} THEN {NoHit}
        ELSE Candidates(index, PINECONE_NAMESPACE)

\* the search outcomes that matter to a conversation
SearchFailures(prompt) ==
    IF prompt # <<>> /\ Triggered(prompt[Len(prompt)].parts[1].text) THEN BOOLEAN ELSE {FALSE}

PostChat ==
    /\ CanServe(MaxChatRequests)
    /\ \E prompt \in Conversations, llmFails \in BOOLEAN, reply \in Replies,
          logFails \in BOOLEAN, hit1 \in Hits, hit2 \in Hits :
         \E searchFails1 \in SearchFailures(prompt), searchFails2 \in SearchFailures(prompt) :
           \E out \in {post_chat(index, PINECONE_NAMESPACE, chat_logs, chat_logs_collection,
                                 today, prompt,
                                 searchFails1, RankedFirst(index, PINECONE_NAMESPACE, hit1),
                                 searchFails2, RankedFirst(index, PINECONE_NAMESPACE, hit2),
                                 llmFails, reply, logFails)} :
             /\ chat_logs' = out.chat_logs
             /\ calls' = out.calls
             /\ resp' = out.resp
             /\ served' = served + 1
             /\ UNCHANGED <<files, index, PINECONE_NAMESPACE, today,
                            chat_logs_collection, inflight, aside>>

\* notes uploaded between chats, every collaborator call succeeding
UploadForChat == UploadWith({FALSE}, FALSE, {0}, MaxChatRequests)

\* the chat log collection is None when the start-up of lines 38-45 failed
InitChat ==
    /\ InitStores
    /\ chat_logs_collection \in BOOLEAN
    /\ inflight = NoWorkers

NextChat == UploadForChat \/ PostChat \/ Respond

SpecChat == InitChat /\ [][NextChat]_vars

(***************************************************************************)
(* DELETE /pinecone-index/?confirm=                                        *)
(***************************************************************************)
\* the confirm query parameter as sent: absent, "true" or "false"
ConfirmValues == {"omitted", "true", "false"}

\* confirm: bool = Query(True, ...): the default stands in for an absent flag
ConfirmParam(query) == IF query = "omitted" THEN TRUE ELSE query = "true"

\* delete_pinecone_index(index_name)
\*   outcome "setup_error" : pc.has_index raises, the function raises
\*           "delete_error": pc.delete_index raises, deleted=False returned
\*           "ok"          : the index is deleted, deleted=True returned
delete_pinecone_index(idx, outcome) ==
    LET attempt == outcome # "setup_error" /\ has_index(idx)
    IN [index |-> IF attempt /\ outcome = "ok" THEN NoIndex ELSE idx,
        calls |-> <<VectorCall("pc.has_index", <<>>, {}, {}, outcome # "setup_error")>> \o
                  (IF attempt
                   THEN <<VectorCall("pc.delete_index", <<>>, {}, {}, outcome = "ok")>>
                   ELSE <<>>),
        raised |-> outcome = "setup_error",
        deleted |-> attempt /\ outcome = "ok",
        message |-> IF outcome = "setup_error" THEN ""
                    ELSE IF ~has_index(idx) THEN "Index does not exist."
                    ELSE IF outcome = "ok" THEN "Index deleted successfully."
                    ELSE "Error deleting index: "]

delete_pinecone_index_endpoint(idx, query, outcome) ==
    LET request == [confirm |-> query]
        delete_result == delete_pinecone_index(idx, outcome)
    IN IF ~ConfirmParam(query)
       THEN [index |-> idx, calls |-> <<>>,
             resp |-> Response("delete_index", <<>>, request, 400,
                               "Confirmation required to delete the entire Pinecone index.",
                               <<>>, NoBody)]
       ELSE IF delete_result.raised
       THEN [index |-> delete_result.index, calls |-> delete_result.calls,
             resp |-> Response("delete_index", <<>>, request, 500,
                               "Failed to delete Pinecone index: ", VectorError, NoBody)]
       ELSE [index |-> delete_result.index, calls |-> delete_result.calls,
             resp |-> Response("delete_index", <<>>, request, 200, "", <<>>,
                               [deleted |-> delete_result.deleted,
                                message |-> delete_result.message])]

DeleteIndex ==
    /\ CanServe(MaxAdminRequests)
    /\ \E query \in ConfirmValues, outcome \in DelOutcomes :
         \E out \in {delete_pinecone_index_endpoint(index, query, outcome)} :
           /\ index' = out.index
           /\ calls' = out.calls
           /\ resp' = out.resp
           /\ served' = served + 1
           /\ UNCHANGED <<files, PINECONE_NAMESPACE, today, others>>

\* notes uploaded and deleted around the deletion of the index
UploadForAdmin == UploadWith({FALSE}, FALSE, {0}, MaxAdminRequests)

DeleteForAdmin == DeleteWith({"ok"}, {0}, MaxAdminRequests)

NextAdmin == UploadForAdmin \/ DeleteForAdmin \/ DeleteIndex \/ Respond

SpecAdmin == Init /\ [][NextAdmin]_vars

(***************************************************************************)
(* Uploads served in parallel.  The stores are external, so two requests   *)
(* handled by two workers of the host interleave at the collaborator calls *)
(* of upload_text_with_metadata: the upsert (line 289), the lookup of      *)
(* add_file_record (line 170) and its insert (line 173).  inflight[w] is   *)
(* the request worker w is handling and how far it got; early records that *)
(* no record of the title existed when the worker finished its upsert.     *)
(***************************************************************************)
Workers == {1, 2}

IdleWorker ==
    [pc |-> "idle", request |-> Request(<<>>, <<>>, <<>>), num_chunks |-> 0,
     early |-> FALSE, status |-> 0]

ConcurrentRequests ==
    {Request(TitleA, c, General) : c \in Contents}
    \cup {Request(TitleA0, ShortText, Work), Request(TitleA, ShortText, BlankStr)}

InitConcurrent ==
    /\ InitStores
    /\ chat_logs_collection = TRUE
    /\ inflight = [w \in Workers |-> IdleWorker]

StoresUntouched == UNCHANGED <<PINECONE_NAMESPACE, today, calls, resp, chat_logs, chat_logs_collection, aside>>

\* lines 273-278: the request is validated on arrival
Receive(w) ==
    /\ inflight[w].pc = "idle"
    /\ served < MaxConcurrentUploads
    /\ \E rq \in ConcurrentRequests :
         inflight' = [inflight EXCEPT ![w] =
            IF Strip(rq.title) = <<>> \/ StripText(rq.content) = <<>> \/ Strip(rq.category) = <<>>
            THEN [IdleWorker EXCEPT !.pc = "done", !.request = rq, !.status = 400]
            ELSE [IdleWorker EXCEPT !.pc = "upsert", !.request = rq]]
    /\ served' = served + 1
    /\ UNCHANGED <<files, index>>
    /\ StoresUntouched

\* lines 289-293: upload_text_to_pinecone
UpsertStep(w) ==
    /\ inflight[w].pc = "upsert"
    /\ LET rq == inflight[w].request
           up == upload_text_to_pinecone(index, PINECONE_NAMESPACE, rq.title, rq.content,
                                         rq.category, FALSE, 0)
       IN /\ index' = up.index
          /\ inflight' = [inflight EXCEPT ![w].pc = "find", ![w].num_chunks = up.n,
                                          ![w].early = (Matches(files, rq.title) = {})]
    /\ UNCHANGED <<files, served>>
    /\ StoresUntouched

\* line 170: the lookup of add_file_record, 409 when the title has a record
FindStep(w) ==
    /\ inflight[w].pc = "find"
    /\ inflight' = [inflight EXCEPT ![w] =
          IF find_one(files, inflight[w].request.title).found
          THEN [@ EXCEPT !.pc = "done", !.status = 409]
          ELSE [@ EXCEPT !.pc = "insert"]]
    /\ UNCHANGED <<files, index, served>>
    /\ StoresUntouched

\* line 173: the insert of add_file_record
InsertStep(w) ==
    /\ inflight[w].pc = "insert"
    /\ LET rq == inflight[w].request
       IN files' = insert_one(files, FileRecord(rq.title, rq.content, rq.category, today,
                                                inflight[w].num_chunks))
    /\ inflight' = [inflight EXCEPT ![w].pc = "done", ![w].status = 200]
    /\ UNCHANGED <<index, served>>
    /\ StoresUntouched

\* the response leaves the worker
Return(w) ==
    /\ inflight[w].pc = "done"
    /\ inflight' = [inflight EXCEPT ![w] = IdleWorker]
    /\ UNCHANGED <<files, index, served>>
    /\ StoresUntouched

NextConcurrent ==
    \E w \in Workers :
        Receive(w) \/ UpsertStep(w) \/ FindStep(w) \/ InsertStep(w) \/ Return(w)

SpecConcurrent == InitConcurrent /\ [][NextConcurrent]_vars

(***************************************************************************)
(* GET /files/                                                             *)
(*   findFails: files_collection.find() raises; get_files re-raises only   *)
(*   HTTPException, so the host answers 500.                               *)
(***************************************************************************)
get_files(fs, findFails) ==
    LET c_find == MongoCall("files.find", <<>>, ~findFails)
    IN IF findFails
       THEN [calls |-> <<c_find>>,
             resp |-> Response("list", <<>>, NoBody, 500, "Internal Server Error",
                               <<>>, NoBody)]
       ELSE [calls |-> <<c_find>>,
             resp |-> Response("list", <<>>, NoBody, 200, "", <<>>,
                               [records |-> get_all_file_records(fs)])]

\* the notes written while the listing is watched: one category, no failure
ListingRequests == {Request(t, c, General) : t \in Titles, c \in Contents}

UploadForListing ==
    /\ CanServe(MaxListingRequests)
    /\ \E rq \in ListingRequests :
         \E out \in {upload_text_with_metadata(
                        files, index, PINECONE_NAMESPACE, today,
                        rq.title, rq.content, rq.category, FALSE, 0, 0)} : Apply(out)

UpdateForListing ==
    /\ CanServe(MaxListingRequests)
    /\ \E original_title \in Titles, rq \in ListingRequests :
         \E out \in {update_file(
                        files, index, PINECONE_NAMESPACE, today,
                        original_title, rq.title, rq.content, rq.category,
                        "ok", FALSE, 0, 0)} : Apply(out)

DeleteForListing == DeleteWith({"ok"}, {0}, MaxListingRequests)

\* a listing reads the records and changes nothing
ListFiles ==
    /\ Idle
    /\ \E findFails \in BOOLEAN :
         \E out \in {get_files(files, findFails)} :
           /\ calls' = out.calls
           /\ resp' = out.resp
    /\ UNCHANGED <<files, index, PINECONE_NAMESPACE, today, served, others>>

NextListing ==
    UploadForListing \/ UpdateForListing \/ DeleteForListing \/ ListFiles \/ Respond

SpecListing == Init /\ [][NextListing]_vars

(***************************************************************************)
(* sandbox.py: the chat at the console.  chat() keeps the conversation and *)
(* the context in two locals set before its loop; each pass of the loop    *)
(* reads a line, looks a context up and asks the model.  console holds the *)
(* two locals while the loop runs; calls holds the calls of the last pass. *)
(* The keywords are Thai words, written here in Latin letters, each with   *)
(* the namespace it is searched in; the index of the sandbox is its own,   *)
(* so what a search returns is an input of the pass.                       *)
(***************************************************************************)
console_keywords ==
    << [word |-> <<"n", "a", "n", "g">>, namespace |-> <<"movie">>],
       [word |-> <<"p", "h", "l", "e", "n", "g">>, namespace |-> <<"music">>],
       [word |-> <<"k", "e", "m">>, namespace |-> <<"game">>],
       [word |-> <<"s", "a", "t">>, namespace |-> <<"animal">>] >>

Exit == <<"e", "x", "i", "t">>
LineNang == <<"n", "a", "n", "g", "?">>
LineGame == <<"k", "e", "m">>
ConsoleLines == {QueryHi, LineNang, LineGame, Exit}

\* what index.search answers: it raises, or returns the chunk texts of its
\* hits, best first
SearchError == [ok |-> FALSE, hits |-> <<>>]
SearchResult(hits) == [ok |-> TRUE, hits |-> hits]
ConsoleSearches ==
    {SearchError} \cup {SearchResult(h) : h \in {<<>>, <<ShortText>>, <<LongText, ShortText>>}}

\* the first keyword, in the order of the dict, that the lowered line holds
ConsoleTriggers(user_input) ==
    {k \in 1..Len(console_keywords) : Contains(Lower(user_input), console_keywords[k].word)}

\* get_context(user_input) of sandbox.py
console_get_context(user_input, found) ==
    LET ks == ConsoleTriggers(user_input)
        k == CHOOSE m \in ks : \A x \in ks : m <= x
        namespace == console_keywords[k].namespace
        query == [top_k |-> top_k, inputs |-> [text |-> user_input]]
        hits == [i \in 1..Len(found.hits) |-> [chunk_text |-> found.hits[i]]]
    IN IF ks = {}
       THEN [calls |-> <<>>, raised |-> FALSE, err |-> <<>>, context |-> None]
       ELSE IF ~found.ok
       THEN [calls |-> <<SearchCall(namespace, query, <<>>, FALSE)>>,
             raised |-> TRUE, err |-> VectorError, context |-> None]
       ELSE IF hits = <<>>
       THEN [calls |-> <<SearchCall(namespace, query, <<>>, TRUE)>>,
             raised |-> TRUE, err |-> IndexError, context |-> None]
       ELSE [calls |-> <<SearchCall(namespace, query, hits, TRUE)>>,
             raised |-> FALSE, err |-> <<>>, context |-> Some(hits[1].chunk_text)]

\* mimi(contents, context) has the body of get_response_from_llm
mimi(contents, context, llmFails, reply) ==
    get_response_from_llm(contents, context, llmFails, reply)

ConsoleState(contents, context, running) ==
    [contents |-> contents, context |-> context, running |-> running]

\* one pass of the loop of chat(); an exception ends the program
chat(state, user_input, found1, found2, llmFails, reply) ==
    LET contents == Append(state.contents, Turn("user", user_input))
        first == console_get_context(user_input, found1)
        second == console_get_context(user_input, found2)
        again == ~first.raised /\ Truthy(first.context)
        context == IF again THEN second.context ELSE state.context
        lookup == IF again THEN first.calls \o second.calls ELSE first.calls
        response == mimi(contents, context, llmFails, reply)
        answered == Append(contents, Turn("assistant", response.text))
    IN IF Lower(user_input) = Exit
       THEN [console |-> ConsoleState(state.contents, state.context, FALSE),
             calls |-> <<>>]
       ELSE IF first.raised
       THEN [console |-> ConsoleState(contents, state.context, FALSE),
             calls |-> first.calls]
       ELSE IF again /\ second.raised
       THEN [console |-> ConsoleState(contents, state.context, FALSE),
             calls |-> lookup]
       ELSE IF response.raised
       THEN [console |-> ConsoleState(contents, context, FALSE),
             calls |-> lookup \o response.calls]
       ELSE [console |-> ConsoleState(answered, context, Lower(response.text) # Exit),
             calls |-> lookup \o response.calls]

\* the searches that matter to a line
ConsoleFound(user_input) ==
    IF ConsoleTriggers(user_input) = {} THEN {SearchResult(<<>>)} ELSE ConsoleSearches

ConsoleTurn ==
    /\ console # NoConsole
    /\ console.running
    /\ served < MaxConsoleTurns
    /\ \E user_input \in ConsoleLines, llmFails \in BOOLEAN, reply \in Replies :
         \E found1 \in ConsoleFound(user_input), found2 \in ConsoleFound(user_input) :
           \E out \in {chat(console, user_input, found1, found2, llmFails, reply)} :
             /\ console' = out.console
             /\ calls' = out.calls
             /\ served' = served + 1
    /\ UNCHANGED <<files, index, PINECONE_NAMESPACE, today, resp,
                   chat_logs, chat_logs_collection, inflight, documents, pending>>

\* line 72: the script calls chat() when it is run
InitConsole ==
    /\ files = <<>>
    /\ index = EmptyIndex
    /\ PINECONE_NAMESPACE \in EnvNamespaces
    /\ today = 1
    /\ calls = <<>>
    /\ resp = NoRequest
    /\ served = 0
    /\ chat_logs = <<>>
    /\ chat_logs_collection = TRUE
    /\ inflight = NoWorkers
    /\ documents = NoDocuments
    /\ pending = NoPending
    /\ console = ConsoleState(<<>>, None, TRUE)

NextConsole == ConsoleTurn

SpecConsole == InitConsole /\ [][NextConsole]_vars

(***************************************************************************)
(* The splitter on its own (lines 98-104 of upload_text_to_pinecone): a    *)
(* text is handed to create_documents, which returns its chunks.           *)
(***************************************************************************)
\* the texts split: a run of 1..MaxTextLen characters, and a blank text
Texts == {<<[ch |-> "y", n |-> len]>> : len \in 1..MaxTextLen} \cup {BlankText}

Documents(text, chunks, split) == [text |-> text, chunks |-> chunks, split |-> split]

create_documents ==
    /\ documents # NoDocuments
    /\ ~documents.split
    /\ documents' = Documents(documents.text, SplitText(documents.text), TRUE)
    /\ UNCHANGED <<files, index, PINECONE_NAMESPACE, today, calls, resp, served,
                   chat_logs, chat_logs_collection, inflight, console, pending>>

InitChunker ==
    /\ files = <<>>
    /\ index = EmptyIndex
    /\ PINECONE_NAMESPACE \in EnvNamespaces
    /\ today = 1
    /\ calls = <<>>
    /\ resp = NoRequest
    /\ served = 0
    /\ chat_logs = <<>>
    /\ chat_logs_collection = TRUE
    /\ inflight = NoWorkers
    /\ console = NoConsole
    /\ pending = NoPending
    /\ \E text \in Texts : documents = Documents(text, <<>>, FALSE)

NextChunker == create_documents

SpecChunker == InitChunker /\ [][NextChunker]_vars

(***************************************************************************)
(* Uploads of a text long enough to be upserted in three batches.          *)
(***************************************************************************)
HugeText == <<[ch |-> "z", n |-> HugeTextLen]>>

BatchRequests ==
    {Request(t, HugeText, General) : t \in Titles} \cup {Request(TitleA, LongText, Work)}

UploadBatches ==
    /\ CanServe(MaxBatchUploads)
    /\ \E rq \in BatchRequests, setupFails \in BOOLEAN :
         \E failBatch \in FailBatches(rq.content, ~setupFails) :
           \E mfail \in IfIssued(~setupFails /\ failBatch = 0, 0..2, 0) :
             \E out \in {upload_text_with_metadata(
                            files, index, PINECONE_NAMESPACE, today,
                            rq.title, rq.content, rq.category,
                            setupFails, failBatch, mfail)} : Apply(out)

NextBatches == UploadBatches \/ Respond

SpecBatches == Init /\ [][NextBatches]_vars

(***************************************************************************)
(* GET /get_context/?query=                                                *)
(* get_context_endpoint answers with whatever get_context returned and     *)
(* turns every exception into a 500.  The notes searched are uploaded      *)
(* with every call succeeding; the index ranks them in any order.          *)
(***************************************************************************)
ContextBody(query, context, status) ==
    [query |-> query, context |-> context, status |-> status]

get_context_endpoint(fs, idx, namespace, query, searchFails, ranking) ==
    LET got == get_context(idx, namespace, query, searchFails, ranking)
        req == Request(<<>>, query, <<>>)
    IN IF got.raised
       THEN Outcome(fs, idx, got.calls,
                    Response("get_context", <<>>, req, 500,
                             "Error retrieving context: ", got.err, NoBody))
       ELSE IF got.context # None
       THEN Outcome(fs, idx, got.calls,
                    Response("get_context", <<>>, req, 200, "", <<>>,
                             ContextBody(query, got.context, "Context found")))
       ELSE Outcome(fs, idx, got.calls,
                    Response("get_context", <<>>, req, 200, "", <<>>,
                             ContextBody(query, None,
                                "No relevant context found in Pinecone for the given query.")))

\* every order in which the index can rank the records of the namespace
Rankings(idx, namespace) ==
    LET S == Candidates(idx, namespace)
        n == Cardinality(S)
    IN {f \in [1..n -> S] : \A i, j \in 1..n : i # j => f[i] # f[j]}

UploadForContext == UploadWith({FALSE}, FALSE, {0}, MaxContextRequests)

GetContext ==
    /\ CanServe(MaxContextRequests)
    /\ \E query \in Queries, ranking \in Rankings(index, PINECONE_NAMESPACE) :
         \E searchFails \in IF Triggered(query) THEN BOOLEAN ELSE {FALSE} :
           \E out \in {get_context_endpoint(files, index, PINECONE_NAMESPACE, query,
                                            searchFails, ranking)} : Apply(out)

NextContext == UploadForContext \/ GetContext \/ Respond

SpecContext == Init /\ [][NextContext]_vars

(***************************************************************************)
(* A request followed call by call.  A handler is straight-line code but   *)
(* for the batch loop of upload_text_to_pinecone: the calls it issues, in  *)
(* their order, are the calls of its outcome.  Accept takes a request      *)
(* with the fate of each of its calls, Call lets the next call return or   *)
(* raise, Answer hands the response (or the error) to the caller once no   *)
(* call is left.  A call that raises is the last one unless the handler    *)
(* catches it, which the handler's outcome already tells.                  *)
(***************************************************************************)
Following(op, fs, idx, logs, cs, r) ==
    [op |-> op, files |-> fs, index |-> idx, chat_logs |-> logs, calls |-> cs,
     resp |-> r, issued |-> 0]

FollowNote(out) ==
    Following(out.resp.op, out.files, out.index, chat_logs, out.calls, out.resp)

FollowChat(out) ==
    Following(out.resp.op, files, index, out.chat_logs, out.calls, out.resp)

CanReceive == Idle /\ pending = NoPending /\ served < MaxFollowedRequests

Accept(following) ==
    /\ Len(following.files) <= MaxFiles
    /\ pending' = following
    /\ UNCHANGED <<files, index, PINECONE_NAMESPACE, today, calls, resp, served,
                   chat_logs, chat_logs_collection, inflight, console, documents>>

FollowedRequests == {Request(TitleA, c, General) : c \in {ShortText, LongText}}

ReceiveUpload ==
    /\ CanReceive
    /\ \E rq \in FollowedRequests, setupFails \in BOOLEAN, mfail \in 0..2 :
         \E failBatch \in FailBatches(rq.content, TRUE) :
           Accept(FollowNote(upload_text_with_metadata(
                                 files, index, PINECONE_NAMESPACE, today,
                                 rq.title, rq.content, rq.category,
                                 setupFails, failBatch, mfail)))

ReceiveUpdate ==
    /\ CanReceive
    /\ \E rq \in FollowedRequests, delOutcome \in DelOutcomes, setupFails \in BOOLEAN,
          mfail \in 0..3 :
         \E failBatch \in FailBatches(rq.content, TRUE) :
           Accept(FollowNote(update_file(
                                 files, index, PINECONE_NAMESPACE, today,
                                 TitleA, rq.title, rq.content, rq.category,
                                 delOutcome, setupFails, failBatch, mfail)))

ReceiveDelete ==
    /\ CanReceive
    /\ \E delOutcome \in DelOutcomes, mfail \in 0..2 :
         Accept(FollowNote(delete_file_and_vectors(
                               files, index, PINECONE_NAMESPACE,
                               TitleA, delOutcome, mfail)))

ReceiveChat ==
    /\ CanReceive
    /\ \E prompt \in Conversations, llmFails \in BOOLEAN, reply \in Replies,
          logFails \in BOOLEAN, hit \in Hits, searchFails1 \in BOOLEAN,
          searchFails2 \in BOOLEAN :
         Accept(FollowChat(post_chat(
                               index, PINECONE_NAMESPACE, chat_logs, chat_logs_collection,
                               today, prompt,
                               searchFails1, RankedFirst(index, PINECONE_NAMESPACE, hit),
                               searchFails2, RankedFirst(index, PINECONE_NAMESPACE, hit),
                               llmFails, reply, logFails)))

\* a call that raised is issued again until it returns
CallRetrying ==
    /\ pending # NoPending
    /\ pending.issued < Len(pending.calls)
    /\ IF pending.calls[pending.issued + 1].ok
       THEN /\ pending' = [pending EXCEPT !.issued = @ + 1]
            /\ calls' = Append(calls, pending.calls[pending.issued + 1])
       ELSE UNCHANGED <<pending, calls>>
    /\ UNCHANGED <<files, index, PINECONE_NAMESPACE, today, resp, served,
                   chat_logs, chat_logs_collection, inflight, console, documents>>

\* the next call of the handler returns or raises
Call ==
    /\ pending # NoPending
    /\ pending.issued < Len(pending.calls)
    /\ pending' = [pending EXCEPT !.issued = @ + 1]
    /\ calls' = Append(calls, pending.calls[pending.issued + 1])
    /\ UNCHANGED <<files, index, PINECONE_NAMESPACE, today, resp, served,
                   chat_logs, chat_logs_collection, inflight, console, documents>>

\* the handler returns or raises to the caller
Answer ==
    /\ pending # NoPending
    /\ pending.issued = Len(pending.calls)
    /\ files' = pending.files
    /\ index' = pending.index
    /\ chat_logs' = pending.chat_logs
    /\ resp' = pending.resp
    /\ served' = served + 1
    /\ pending' = NoPending
    /\ UNCHANGED <<PINECONE_NAMESPACE, today, calls, chat_logs_collection, inflight,
                   console, documents>>

NextFollowed ==
    ReceiveUpload \/ ReceiveUpdate \/ ReceiveDelete \/ ReceiveChat
      \/ Call \/ Answer \/ Respond

\* every call eventually returns or raises, and the handler then goes on
SpecFollowed ==
    Init /\ [][NextFollowed]_vars /\ WF_vars(Call) /\ WF_vars(Answer) /\ WF_vars(Respond)

(***************************************************************************)
(* Uploads and updates over the days, every collaborator call succeeding:  *)
(* the specification under which the update that changes nothing is       *)
(* checked.                                                                *)
(***************************************************************************)
UploadForUpdate == UploadWith({FALSE}, FALSE, {0}, MaxUpdateRequests)

UpdateForUpdate == UpdateWith({"ok"}, {FALSE}, FALSE, {0}, MaxUpdateRequests)

NextUpdate == UploadForUpdate \/ UpdateForUpdate \/ NextDay \/ Respond

SpecUpdate == Init /\ [][NextUpdate]_vars

(***************************************************************************)
(* Notes of every category, "None" included, uploaded and deleted; the     *)
(* vector delete may fail.                                                 *)
(***************************************************************************)
RoundTripRequests ==
    {Request(t, c, k) : t \in Titles, c \in Contents,
                        k \in Categories \cup {NoneStr, Default}}

UploadForDelete ==
    /\ CanServe(MaxDeleteRequests)
    /\ \E rq \in RoundTripRequests :
         \E out \in {upload_text_with_metadata(
                        files, index, PINECONE_NAMESPACE, today,
                        rq.title, rq.content, rq.category, FALSE, 0, 0)} : Apply(out)

DeleteForDelete == DeleteWith(DelOutcomes, {0}, MaxDeleteRequests)

NextDelete == UploadForDelete \/ DeleteForDelete \/ Respond

SpecDelete == Init /\ [][NextDelete]_vars

(***************************************************************************)
(* Vocabulary of the properties.                                           *)
(***************************************************************************)
VectorApis == {"pc.has_index", "index.upsert_records", "index.delete"}

Positions(cs, apis) == {i \in 1..Len(cs) : cs[i].api \in apis}

ChunkIndexes == 0..NumChunks(TextLen(LongText))

\* id is "{title}_{i}" for some chunk index i
IsChunkIdOf(id, title) == \E i \in ChunkIndexes : id = RecordId(title, i)

ChunksStored(title, ns) == {r \in index[ns] : IsChunkIdOf(r.id, title)}

UploadServed == Idle /\ resp'.op = "upload"
DeleteServed == Idle /\ resp'.op = "delete"
UpdateServed == Idle /\ resp'.op = "update"

\* C1: when no collaborator call ever fails, every stored record's
\* num_chunks is the number of "{title}_{i}" chunk records held by the
\* namespace named by the record's category.
C1_ChunkCountMatchesIndex ==
    \A k \in 1..Len(files) :
        files[k].num_chunks = Cardinality(ChunksStored(files[k].title, files[k].category))

\* C2: a successful upload of a title followed at once by a successful
\* delete of that title leaves no chunk whose ID starts with "{title}_" in
\* any namespace.
C2_UploadDeleteRoundTrip ==
    (resp.op = "upload" /\ resp.status = 200) =>
        LET out == delete_file_and_vectors(files, index, PINECONE_NAMESPACE,
                                           resp.title, "ok", 0)
        IN /\ out.resp.status = 200
           /\ \A ns \in Namespaces : \A r \in out.index[ns] :
                  ~StartsWith(r.id, resp.title \o <<"_">>)

\* C3: an upload whose title already has a record answers 409 and writes
\* nothing to the vector index.
C3_DuplicateUploadWritesNothing ==
    [][(UploadServed /\ Matches(files, resp'.title) # {}) =>
          /\ resp'.status = 409
          /\ Positions(calls', {"index.upsert_records"}) = {}
          /\ index' = index]_vars

\* C4: no two stored records have the same title.
C4_TitlesUnique ==
    \A i, j \in 1..Len(files) : files[i].title = files[j].title => i = j

\* C5: an upload writes the record only after every vector call of the
\* request has succeeded, with the number of records upserted as its
\* num_chunks; when a vector call fails no record is written and the 500
\* response carries that call's failure reason.
C5_UploadRecordsAfterUpsert ==
    [][UploadServed =>
          LET cs == calls'
              vec == Positions(cs, VectorApis)
              ups == Positions(cs, {"index.upsert_records"})
              ins == Positions(cs, {"files.insert_one"})
          IN /\ \A i \in ins : /\ \E j \in vec : j < i
                               /\ \A j \in vec : j < i /\ cs[j].ok
             /\ files' # files =>
                  /\ \E i \in ins : cs[i].ok
                  /\ Len(files') = Len(files) + 1
                  /\ files'[Len(files')].title = resp'.title
                  /\ files'[Len(files')].num_chunks
                       = Cardinality(UNION {cs[j].ids : j \in ups})
             /\ \A j \in vec : ~cs[j].ok =>
                  /\ ins = {}
                  /\ files' = files
                  /\ resp'.status = 500
                  /\ resp'.detail.msg = "Pinecone upload failed: "
                  /\ resp'.detail.arg = cs[j].err]_vars

C5_Witness ==
    /\ resp.op = "upload"
    /\ resp.status = 500
    /\ \E i \in Positions(calls, {"index.upsert_records"}) : ~calls[i].ok
    /\ Matches(files, resp.title) = {}

\* C6: every upsert of an upload goes to the namespace named by the
\* uploaded category.
C6_UploadNamespaceIsCategory ==
    resp.op = "upload" =>
        \A i \in Positions(calls, {"index.upsert_records"}) :
            calls[i].ns = resp.request.category

\* C7: after a successful update that changes the content, the stored
\* record's num_chunks is the number of chunks upserted from the new content.
C7_UpdateRecomputesNumChunks ==
    [][(/\ UpdateServed
        /\ resp'.status = 200
        /\ Matches(files, resp'.title) # {}
        /\ files[FirstMatch(files, resp'.title)].content # resp'.request.content) =>
          files'[FirstMatch(files, resp'.title)].num_chunks
            = Cardinality(UNION {calls'[i].ids :
                                   i \in Positions(calls', {"index.upsert_records"})})]_vars

\* C8: a delete of a title without a record issues the lookup and nothing
\* else, changes neither store, and answers 404 when the lookup answered.
C8_DeleteAbsentIsNotFound ==
    [][(DeleteServed /\ Matches(files, resp'.title) = {}) =>
          /\ Len(calls') = 1
          /\ calls'[1].api = "files.find_one"
          /\ Positions(calls', VectorApis \cup {"files.delete_one"}) = {}
          /\ resp'.status = IF calls'[1].ok THEN 404 ELSE 500
          /\ files' = files
          /\ index' = index]_vars

C8_Witness ==
    /\ resp.op = "delete"
    /\ resp.status = 404
    /\ files # <<>>

\* C9: a delete of an existing title attempts the vector deletion before
\* the record deletion; a vector failure, reported or raised, leaves the
\* record deletion in place and shows as deleted_pinecone = false; a failed
\* record deletion is an error to the caller.
C9_DeleteVectorsFirstThenRecord ==
    [][(DeleteServed /\ Matches(files, resp'.title) # {} /\ calls'[1].ok) =>
          LET cs == calls'
              vec == Positions(cs, VectorApis)
              del == Positions(cs, {"files.delete_one"})
          IN /\ vec # {}
             /\ Cardinality(del) = 1
             /\ \A i \in vec, j \in del : i < j
             /\ \A j \in del :
                  IF cs[j].ok
                  THEN /\ resp'.status = 200
                       /\ resp'.body.deleted_mongo
                       /\ resp'.body.deleted_pinecone = (\A i \in vec : cs[i].ok)
                       /\ Len(files') = Len(files) - 1
                       /\ Cardinality(Matches(files', resp'.title))
                            = Cardinality(Matches(files, resp'.title)) - 1
                  ELSE /\ resp'.status = 500
                       /\ resp'.detail.arg = cs[j].err
                       /\ files' = files]_vars

C9_Witness ==
    /\ resp.op = "delete"
    /\ resp.status = 200
    /\ \E i \in Positions(calls, VectorApis) : ~calls[i].ok
    /\ ~resp.body.deleted_pinecone
    /\ resp.body.deleted_mongo

ChatServed == Idle /\ resp'.op = "chat"

\* the latest turn's text of a chat request
LatestText(request) == request.prompt[Len(request.prompt)].parts[1].text

\* the query holds a trigger keyword, whatever the case of its letters
HasKeyword(query) ==
    \E k \in 1..Len(keywords) : Contains(Lower(query), Lower(keywords[k]))

\* C11: a chat whose query holds a trigger keyword and whose similarity
\* search fails or finds no hit still invokes the model, without context,
\* and answers normally when the model does.
C11_SearchFailureProceedsWithoutContext ==
    [][(/\ ChatServed
        /\ resp'.request.prompt # <<>>
        /\ HasKeyword(LatestText(resp'.request))
        /\ \/ \E i \in Positions(calls', {"index.search"}) : ~calls'[i].ok
           \/ Candidates(index, PINECONE_NAMESPACE) = {}) =>
          /\ \E m \in Positions(calls', {"models.generate_content"}) :
                 /\ calls'[m].context = None
                 /\ calls'[m].ok => resp'.status = 200]_vars

\* C12: a chat whose latest turn holds no trigger keyword issues no call to
\* the vector index and invokes the model without context.
C12_NoTriggerNoSearch ==
    [][(/\ ChatServed
        /\ resp'.request.prompt # <<>>
        /\ ~HasKeyword(LatestText(resp'.request))) =>
          /\ \A i \in 1..Len(calls') : calls'[i].api \notin {"index.search"} \cup VectorApis
          /\ \E m \in Positions(calls', {"models.generate_content"}) :
                 calls'[m].context = None]_vars

C12_Witness ==
    /\ resp.op = "chat"
    /\ resp.status = 200
    /\ LatestText(resp.request) = QueryHi
    /\ Candidates(index, PINECONE_NAMESPACE) # {}
    /\ Positions(calls, {"models.generate_content"}) # {}

\* C13: a chat request issues at most one similarity search and, when it
\* answers, exactly one model invocation, in the order search, model
\* invocation, chat-log write.
C13_ChatStepsOnceInOrder ==
    [][ChatServed =>
          LET cs == calls'
              search == Positions(cs, {"index.search"})
              model == Positions(cs, {"models.generate_content"})
              logw == Positions(cs, {"chat_logs.insert_one"})
          IN /\ Cardinality(search) <= 1
             /\ Cardinality(model) <= 1
             /\ resp'.status = 200 => Cardinality(model) = 1
             /\ Cardinality(logw) <= 1
             /\ \A s \in search, m \in model : s < m
             /\ \A m \in model, l \in logw : m < l]_vars

\* C14: a chat answered with 200 returns the conversation it received with
\* one turn appended at the end, of role assistant and carrying the text the
\* model generated; the earlier turns are unchanged and in order.
C14_ChatAppendsOneTurn ==
    [][(ChatServed /\ resp'.status = 200) =>
          LET received == resp'.request.prompt
              returned == resp'.body.prompt
              model == Positions(calls', {"models.generate_content"})
          IN /\ Len(returned) = Len(received) + 1
             /\ SubSeq(returned, 1, Len(received)) = received
             /\ returned[Len(returned)].role = "assistant"
             /\ \E m \in model : returned[Len(returned)].parts = <<[text |-> calls'[m].text]>>]_vars

C14_Witness ==
    /\ resp.op = "chat"
    /\ resp.status = 200
    /\ Len(resp.request.prompt) = 3
    /\ Len(resp.body.prompt) = 4

\* C15: when the model answered and the chat-log write fails, or the log
\* collection was never initialised, the chat is still answered with 200 and
\* the conversation with the assistant turn appended, and nothing is logged.
C15_ChatLogBestEffort ==
    [][(/\ ChatServed
        /\ \E m \in Positions(calls', {"models.generate_content"}) : calls'[m].ok
        /\ \/ ~chat_logs_collection
           \/ \E l \in Positions(calls', {"chat_logs.insert_one"}) : ~calls'[l].ok) =>
          /\ resp'.status = 200
          /\ \E m \in Positions(calls', {"models.generate_content"}) :
                 resp'.body.prompt
                   = Append(resp'.request.prompt, Turn("assistant", calls'[m].text))
          /\ chat_logs' = chat_logs]_vars

C15_Witness ==
    /\ resp.op = "chat"
    /\ resp.status = 200
    /\ \E l \in Positions(calls, {"chat_logs.insert_one"}) : ~calls[l].ok
    /\ chat_logs = <<>>
    /\ Len(resp.body.prompt) = Len(resp.request.prompt) + 1

IndexDeleteServed == Idle /\ resp'.op = "delete_index"

\* C16: the vector index is deleted only by a request that supplies the
\* confirmation flag as true; a request without the flag never deletes it.
C16_IndexDeletionNeedsConfirmation ==
    [][(IndexDeleteServed /\ has_index(index) /\ ~has_index(index')) =>
          resp'.request.confirm = "true"]_vars

\* the calls that write to the document store
RecordWrites == {"files.insert_one", "files.delete_one", "files.update_one"}

\* C17: an upload, update or delete in which the calls to one store
\* succeeded and a call to the other failed does not end in a success
\* response that hides the failure.
C17_PartialFailureVisible ==
    [][(UploadServed \/ UpdateServed \/ DeleteServed) =>
          LET cs == calls'
              vec == Positions(cs, VectorApis)
              rec == Positions(cs, RecordWrites)
              vecFailed == \E i \in vec : ~cs[i].ok
              vecDone == vec # {} /\ \A i \in vec : cs[i].ok
              recFailed == \E i \in rec : ~cs[i].ok
              recDone == rec # {} /\ \A i \in rec : cs[i].ok
          IN ((vecFailed /\ recDone) \/ (vecDone /\ recFailed)) =>
                \/ resp'.status >= 400
                \/ /\ resp'.op = "delete"
                   /\ ~(resp'.body.deleted_pinecone /\ resp'.body.deleted_mongo)]_vars

\* every character is a space
IsBlank(s) == \A i \in 1..Len(s) : s[i] = SP

\* every run is a run of spaces
IsBlankText(c) == \A i \in 1..Len(c) : c[i].ch = SP \/ c[i].n = 0

\* C18: an upload whose title, content or category is empty or only spaces
\* is answered with 400 without any call to the vector index or the document
\* store, and both stores are left as they were.
C18_ValidationBeforeCalls ==
    [][(/\ UploadServed
        /\ \/ IsBlank(resp'.request.title)
           \/ IsBlankText(resp'.request.content)
           \/ IsBlank(resp'.request.category)) =>
          /\ resp'.status = 400
          /\ calls' = <<>>
          /\ files' = files
          /\ index' = index]_vars

C18_Witness ==
    /\ resp.op = "upload"
    /\ resp.status = 400
    /\ resp.request.category = BlankStr
    /\ ~IsBlank(resp.request.title)
    /\ files # <<>>
    /\ calls = <<>>

\* C19: every stored record has a non-empty title, a non-empty content and
\* a non-empty category.
C19_StoredFieldsNonEmpty ==
    \A k \in 1..Len(files) :
        /\ files[k].title # <<>>
        /\ files[k].content # <<>>
        /\ files[k].category # <<>>

Max(a, b) == IF a > b THEN a ELSE b

\* workers w and v have both finished an upload of one title, each having
\* completed its upsert before any record of the title was inserted
Raced(w, v) ==
    /\ w # v
    /\ inflight[w].pc = "done" /\ inflight[v].pc = "done"
    /\ inflight[w].request.title = inflight[v].request.title
    /\ inflight[w].early /\ inflight[v].early

\* the "{title}_{i}" chunks in the namespace the uploads write to
UploadedChunks(title) == ChunksStored(title, UploadNamespace(PINECONE_NAMESPACE))

\* C20: two uploads of one title can both finish their upsert before either
\* inserts its record; the index then holds the chunks of the longer content,
\* each upload that found no record answers 200 and stores its own record, so
\* that two records of the title exist when both lookups preceded both
\* inserts, and a stored record of the shorter content has a num_chunks that
\* differs from the number of chunks in the index.
C20_ConcurrentUploadsRace ==
    \A w, v \in Workers :
        Raced(w, v) =>
          LET title == inflight[w].request.title
              count == Cardinality(UploadedChunks(title))
              stored == {files[k] : k \in Matches(files, title)}
          IN /\ count = Max(inflight[w].num_chunks, inflight[v].num_chunks)
             /\ inflight[w].status \in {200, 409}
             /\ inflight[w].status = 200 \/ inflight[v].status = 200
             /\ inflight[w].status = 200 =>
                  \E r \in stored : /\ r.content = inflight[w].request.content
                                    /\ r.num_chunks = inflight[w].num_chunks
             /\ (inflight[w].status = 200 /\ inflight[v].status = 200) =>
                  Cardinality(Matches(files, title)) = 2
             /\ \A r \in stored :
                  r.num_chunks \in {inflight[w].num_chunks, inflight[v].num_chunks}
             /\ (/\ inflight[w].status = 200
                 /\ inflight[w].num_chunks < inflight[v].num_chunks) =>
                  \E r \in stored : r.num_chunks # count

C20_Witness ==
    \E w, v \in Workers :
        /\ Raced(w, v)
        /\ inflight[w].request.content # inflight[v].request.content
        /\ Cardinality(Matches(files, inflight[w].request.title)) = 2
        /\ \E k \in Matches(files, inflight[w].request.title) :
              files[k].num_chunks # Cardinality(UploadedChunks(inflight[w].request.title))

ListServed == Idle /\ resp'.op = "list"

\* the titles GET /files/ would return now
Listed(fs) ==
    LET out == get_files(fs, FALSE)
    IN {out.resp.body.records[k].title : k \in 1..Len(out.resp.body.records)}

\* C21: once a delete of title T has answered with deleted_mongo true, the
\* listing GET /files/ returns next has no record titled T.
C21_DeletedNoteNotListed ==
    (resp.op = "delete" /\ resp.status = 200 /\ resp.body.deleted_mongo) =>
        resp.title \notin Listed(files)

\* C22: an upload answered 409 leaves every stored record as it was, the
\* record of the title included (num_chunks, content, category and date),
\* and adds no record.
C22_ConflictLeavesRecord ==
    [][(UploadServed /\ resp'.status = 409) =>
          /\ Matches(files, resp'.title) # {}
          /\ Len(files') = Len(files)
          /\ \A k \in 1..Len(files) :
                /\ files'[k].title = files[k].title
                /\ files'[k].num_chunks = files[k].num_chunks
                /\ files'[k].content = files[k].content
                /\ files'[k].category = files[k].category
                /\ files'[k].date = files[k].date]_vars

\* an upload of other content and category, on a later day, was refused
C22_Witness ==
    /\ resp.op = "upload"
    /\ resp.status = 409
    /\ \E k \in Matches(files, resp.title) :
          /\ files[k].content # resp.request.content
          /\ files[k].category # resp.request.category
          /\ files[k].date # today

\* C23: when the insert of the record fails after every upsert of the upload
\* succeeded, the upload answers 500 with the failure, no record of the
\* title exists, the records upserted stay in the index and no vector
\* delete is issued.
C23_OrphanedChunksOnRecordFailure ==
    [][(/\ UploadServed
        /\ \E i \in Positions(calls', {"files.insert_one"}) : ~calls'[i].ok) =>
          LET cs == calls'
              ups == Positions(cs, {"index.upsert_records"})
          IN /\ ups # {}
             /\ \A j \in ups : cs[j].ok
             /\ resp'.status = 500
             /\ resp'.detail.msg = "Failed to add file record to MongoDB: "
             /\ resp'.detail.arg = MongoError
             /\ files' = files
             /\ Matches(files', resp'.title) = {}
             /\ \A j \in ups : cs[j].recs \subseteq index'[cs[j].ns]
             /\ Positions(cs, {"index.delete"}) = {}]_vars

C23_Witness ==
    /\ resp.op = "upload"
    /\ resp.status = 500
    /\ \E i \in Positions(calls, {"files.insert_one"}) : ~calls[i].ok
    /\ Matches(files, resp.title) = {}
    /\ Cardinality(UploadedChunks(resp.title)) = 2

\* the last of a set of positions
LastOf(S) == CHOOSE m \in S : \A x \in S : x <= m

\* C24: the model is given the received conversation as it is, and a system
\* instruction that is the persona followed by the directive clause around
\* the text of the hit when the search returned one, the persona alone
\* otherwise.
C24_ConversationAssembly ==
    [][ChatServed =>
          \A i \in Positions(calls', {"models.generate_content"}) :
              LET found == {j \in Positions(calls', {"index.search"}) :
                               j < i /\ calls'[j].ok /\ calls'[j].recs # {}}
              IN /\ calls'[i].contents = resp'.request.prompt
                 /\ found = {} => calls'[i].system_instruction = Persona
                 /\ found # {} =>
                      LET r == calls'[LastOf(found)].hits[1]
                      IN /\ r.chunk_text # <<>>
                         /\ calls'[i].system_instruction
                              = Persona \o DirectiveHead \o r.chunk_text \o DirectiveTail]_vars

\* a chat of several turns was given the clause with the text of a hit
C24_Witness ==
    /\ resp.op = "chat"
    /\ resp.status = 200
    /\ Len(resp.request.prompt) > 1
    /\ \E i \in Positions(calls, {"models.generate_content"}) :
          calls[i].system_instruction = Persona \o DirectiveHead \o ShortText \o DirectiveTail

\* a pass of the console loop that went on to a look-up
ConsoleServed == console # NoConsole /\ console' # console

\* C25: the context the model is given in a chat comes only from the latest
\* user turn of that chat and the answer of the index to it: a model call
\* that no search returning a hit precedes in the same chat has the persona
\* alone as its system instruction, whatever chats came before.
C25_ContextFromLatestTurnOnly ==
    [][(ChatServed \/ ConsoleServed) =>
          \A i \in Positions(calls', {"models.generate_content"}) :
              (\A j \in Positions(calls', {"index.search"}) :
                   ~(j < i /\ calls'[j].ok /\ calls'[j].recs # {}))
                => calls'[i].system_instruction = Persona]_vars

\* C26: every step leaves the entries of the chat log as they are; a chat
\* adds at most one entry, after them, whose user_prompt is the text of the
\* latest turn of the request and whose llm_response is the text of the
\* assistant turn the request appended.
C26_ChatLogAppendOnly ==
    [][\/ chat_logs' = chat_logs
       \/ /\ ChatServed
          /\ resp'.status = 200
          /\ Len(chat_logs') = Len(chat_logs) + 1
          /\ SubSeq(chat_logs', 1, Len(chat_logs)) = chat_logs
          /\ LET entry == chat_logs'[Len(chat_logs')]
                 answered == resp'.body.prompt
             IN /\ entry.user_prompt = LatestText(resp'.request)
                /\ Len(answered) = Len(resp'.request.prompt) + 1
                /\ answered[Len(answered)].role = "assistant"
                /\ entry.llm_response = answered[Len(answered)].parts[1].text]_vars

\* a second chat, of several turns, added its entry after the first one's
C26_Witness ==
    /\ resp.op = "chat"
    /\ resp.status = 200
    /\ Len(resp.request.prompt) > 1
    /\ Len(chat_logs) = 2
    /\ chat_logs[2].user_prompt = LatestText(resp.request)
    /\ chat_logs[1].llm_response # chat_logs[2].llm_response

\* C27: after an upload answered 200 with num_chunks n, the listing has one
\* record of the title, whose num_chunks is n; n is the number of chunks
\* the content was split into and upserted as (1 for a text of eleven
\* characters); and a listing answered 200 returns the stored records with
\* their num_chunks.
C27_UploadBecomesVisible ==
    [][/\ (UploadServed /\ resp'.status = 200) =>
            LET n == resp'.body.num_chunks
                listing == get_files(files', FALSE).resp.body.records
                ups == Positions(calls', {"index.upsert_records"})
                mine == {k \in 1..Len(listing) : listing[k].title = resp'.title}
            IN /\ Cardinality(mine) = 1
               /\ \A k \in mine : listing[k].num_chunks = n
               /\ n = Len(SplitText(resp'.request.content))
               /\ n = Cardinality(UNION {calls'[j].ids : j \in ups})
               /\ resp'.request.content = ShortText => n = 1
       /\ (ListServed /\ resp'.status = 200) =>
            /\ Len(resp'.body.records) = Len(files)
            /\ \A k \in 1..Len(files) :
                  /\ resp'.body.records[k].title = files[k].title
                  /\ resp'.body.records[k].num_chunks = files[k].num_chunks]_vars

\* a listing shows a note of one chunk and a note of two
C27_Witness ==
    /\ resp.op = "list"
    /\ resp.status = 200
    /\ \E j, k \in 1..Len(resp.body.records) :
          /\ resp.body.records[j].title # resp.body.records[k].title
          /\ resp.body.records[j].content = ShortText
          /\ resp.body.records[j].num_chunks = 1
          /\ resp.body.records[k].content = LongText
          /\ resp.body.records[k].num_chunks = 2

Held(idx, ns, title) ==
    IF has_index(idx) THEN {r \in idx[ns] : r.filename = title} ELSE {}

\* C29: when the k-th upsert of an upload raises, the upload answers 500
\* with the failure, the records of the k-1 batches before it are in the
\* index, those of the k-th are not written, no call follows the k-th (no
\* later batch, no record write) and no record is created.
C29_PartialBatchesNotRolledBack ==
    [][(/\ UploadServed
        /\ \E j \in Positions(calls', {"index.upsert_records"}) : ~calls'[j].ok) =>
          LET cs == calls'
              ups == Positions(cs, {"index.upsert_records"})
              f == CHOOSE j \in ups : ~cs[j].ok
              k == Cardinality({j \in ups : j <= f})
              ns == cs[f].ns
              title == resp'.title
          IN /\ resp'.status = 500
             /\ resp'.detail.msg = "Pinecone upload failed: "
             /\ resp'.detail.arg = cs[f].err
             /\ f = Len(cs)
             /\ k <= NumBatches(resp'.request.content)
             /\ \A j \in ups : j < f =>
                   /\ cs[j].ok
                   /\ Cardinality(cs[j].recs) = batch_size
                   /\ cs[j].recs \subseteq index'[ns]
             /\ \A r \in cs[f].recs : r \in index'[ns] => r \in Held(index, ns, title)
             /\ Cardinality(Held(index', ns, title) \ Held(index, ns, title))
                  <= batch_size * (k - 1)
             /\ files' = files
             /\ Positions(cs, {"files.find_one", "files.insert_one"}) = {}]_vars

\* the second of three batches failed: the first hundred chunks, and no
\* other, are in the index and the title has no record
C29_Witness ==
    /\ resp.op = "upload"
    /\ resp.status = 500
    /\ LET ups == Positions(calls, {"index.upsert_records"})
       IN /\ Cardinality(ups) = 2
          /\ \E j \in ups : ~calls[j].ok
    /\ NumBatches(resp.request.content) = 3
    /\ Cardinality(Held(index, UploadNamespace(PINECONE_NAMESPACE), resp.title)) = batch_size
    /\ Matches(files, resp.title) = {}

\* C30: an upload answered 200 of a text that splits into n chunks has
\* upserted the n records "{title}_0" .. "{title}_{n-1}" and no other, record
\* i with chunk i and chunk_index i, each in one batch only, the batches in
\* the order of the chunks and of at most 100 records each, and returns n.
C30_ContiguousIdsOnce ==
    [][(UploadServed /\ resp'.status = 200) =>
          LET cs == calls'
              ups == Positions(cs, {"index.upsert_records"})
              chunks == SplitText(resp'.request.content)
              n == Len(chunks)
              title == resp'.title
              first == CHOOSE j \in ups : \A x \in ups : j <= x
          IN /\ resp'.body.num_chunks = n
             /\ n >= 1
             /\ ups = first..(first + Cardinality(ups) - 1)
             /\ \A j \in ups : /\ cs[j].ok
                                /\ Cardinality(cs[j].recs) <= 100
                                /\ Cardinality(cs[j].recs) >= 1
                                /\ cs[j].ids = IdsOf(cs[j].recs)
             /\ UNION {cs[j].ids : j \in ups} = {RecordId(title, i) : i \in 0..(n - 1)}
             /\ \A i \in 0..(n - 1) :
                   LET j == first + (i \div 100)
                   IN /\ j \in ups
                      /\ \A x \in ups : RecordId(title, i) \in cs[x].ids => x = j
                      /\ \E r \in cs[j].recs :
                            /\ r.id = RecordId(title, i)
                            /\ r.chunk_index = i
                            /\ r.chunk_text = chunks[i + 1].page_content
                            /\ r.start_index = chunks[i + 1].start_index
                            /\ r.filename = title
                      /\ Cardinality({r \in cs[j].recs : r.id = RecordId(title, i)}) = 1]_vars

\* an upload in three batches succeeded
C30_Witness ==
    /\ resp.op = "upload"
    /\ resp.status = 200
    /\ resp.body.num_chunks > 2 * batch_size
    /\ Cardinality(Positions(calls, {"index.upsert_records"})) = 3
    /\ Cardinality(Held(index, UploadNamespace(PINECONE_NAMESPACE), resp.title))
         = resp.body.num_chunks

\* the namespace os.getenv("PINECONE_NAMESPACE") stands for
Configured == IF PINECONE_NAMESPACE = <<>> THEN Default ELSE PINECONE_NAMESPACE

\* C31: the vector delete of a note issues one index.delete call, for the
\* IDs "{title}_0" .. "{title}_{n-1}" with n the stored num_chunks, in the
\* namespace named by the category (the configured one for "None"); it
\* reports deleted true exactly when that call is accepted, whether or not
\* the IDs were in that namespace, and removes nothing else.  No call is
\* issued when the client of the index cannot be reached.
C31_DeleteByReconstructedIds ==
    [][(DeleteServed /\ Matches(files, resp'.title) # {}) =>
          LET cs == calls'
              title == resp'.title
              doc == files[FirstMatch(files, title)]
              dels == Positions(cs, {"index.delete"})
              ids == {RecordId(title, i) : i \in 0..(doc.num_chunks - 1)}
              ns == IF doc.category # NoneStr THEN doc.category ELSE Configured
              reached == \A j \in Positions(cs, {"pc.has_index"}) : cs[j].ok
          IN /\ Cardinality(dels) = IF reached THEN 1 ELSE 0
             /\ resp'.status = 200
             /\ dels = {} => (~resp'.body.deleted_pinecone /\ index' = index)
             /\ \A j \in dels :
                   /\ cs[j].ids = ids
                   /\ cs[j].ns = ns
                   /\ resp'.body.deleted_pinecone = cs[j].ok
                   /\ cs[j].ok =>
                         index' = [index EXCEPT ![ns] = {r \in @ : r.id \notin ids}]
                   /\ ~cs[j].ok => index' = index]_vars

\* a delete reported deleted_pinecone though its IDs were in another namespace
C31_Witness ==
    /\ resp.op = "delete"
    /\ resp.status = 200
    /\ resp.body.deleted_pinecone
    /\ \E j \in Positions(calls, {"index.delete"}) :
          /\ Cardinality(calls[j].ids) = 2
          /\ calls[j].ns # Configured
          /\ IdsOf(Held(index, Configured, resp.title)) = calls[j].ids

\* C33: when a note's category is the configured namespace, or "None", and
\* the index holds the chunk records its upload wrote, the delete of the
\* note with the stored chunk count, when its index.delete call is accepted,
\* removes every one of those records: n of them, for the n the upload
\* returned.
C33_RoundTripMatchingNamespace ==
    [][LET title == resp'.title
           doc == files[FirstMatch(files, title)]
           records == ChunkRecords(title, doc.content, doc.category)
           written == {records[i] : i \in 1..Len(records)}
       IN (/\ DeleteServed
           /\ Matches(files, title) # {}
           /\ doc.category \in {Configured, NoneStr}
           /\ written \subseteq index[Configured]
           /\ \E j \in Positions(calls', {"index.delete"}) : calls'[j].ok) =>
             /\ Cardinality(written) = doc.num_chunks
             /\ \A r \in index'[Configured] : r.id \notin IdsOf(written)
             /\ resp'.body.deleted_pinecone]_vars

\* the two chunks of a note were removed from the configured namespace
C33_Witness ==
    /\ resp.op = "delete"
    /\ resp.status = 200
    /\ resp.body.deleted_pinecone
    /\ \E j \in Positions(calls, {"index.delete"}) :
          /\ calls[j].ok
          /\ calls[j].ns = Configured
          /\ Cardinality(calls[j].ids) = 2
          /\ \A r \in index[Configured] : r.id \notin calls[j].ids

\* C34: DELETE /files/ for title T removes from the files collection at most
\* the one record titled T and from the index only records whose ID is
\* "{T}_{i}" and whose filename is T: the records and the chunk records of
\* every other title are the same before and after.
C34_DeleteTouchesOwnDocument ==
    [][DeleteServed =>
          LET T == resp'.title
              others_of(fs) == SelectSeq(fs, LAMBDA doc : doc.title # T)
          IN /\ others_of(files') = others_of(files)
             /\ Len(files) - Len(files') \in {0, 1}
             /\ \A ns \in DOMAIN index :
                   /\ index'[ns] \subseteq index[ns]
                   /\ \A r \in index[ns] \ index'[ns] :
                         /\ r.filename = T
                         /\ IsChunkIdOf(r.id, T)
                   /\ \A r \in index[ns] : r.filename # T => r \in index'[ns]]_vars

\* note A was deleted with its chunk "A_0" while note A_0 and its chunk
\* "A_0_0", in the same namespace, were kept
C34_Witness ==
    /\ resp.op = "delete"
    /\ resp.status = 200
    /\ resp.title = TitleA
    /\ resp.body.deleted_pinecone
    /\ resp.body.deleted_mongo
    /\ Matches(files, TitleA0) # {}
    /\ \E j \in Positions(calls, {"index.delete"}) :
          /\ RecordId(TitleA, 0) \in calls[j].ids
          /\ RecordId(TitleA, 0) \notin IdsOf(index[calls[j].ns])
          /\ RecordId(TitleA0, 0) \in IdsOf(index[calls[j].ns])

\* C35: a PUT /files/{T} request, whatever new title it carries, leaves the
\* record of every note titled otherwise as it was and leaves every chunk
\* record whose filename is not T in the index, with the fields it had.
C35_UpdateTouchesOwnDocument ==
    [][UpdateServed =>
          LET T == resp'.title
          IN /\ Len(files') = Len(files)
             /\ \A k \in 1..Len(files) : files[k].title # T => files'[k] = files[k]
             /\ \A ns \in DOMAIN index :
                   \A r \in index[ns] : r.filename # T => r \in index'[ns]]_vars

\* C36: a chat request whose models.generate_content call raises is answered
\* with an error status and no conversation, issues no chat_logs.insert_one
\* call and leaves the chat log as it was.
C36_ModelFailureAbortsChat ==
    [][(/\ ChatServed
        /\ \E m \in Positions(calls', {"models.generate_content"}) : ~calls'[m].ok) =>
          /\ resp'.status = 500
          /\ resp'.body = NoBody
          /\ Positions(calls', {"chat_logs.insert_one"}) = {}
          /\ chat_logs' = chat_logs
          /\ \A m \in Positions(calls', {"models.generate_content"}) : m = Len(calls')]_vars

\* the model failed in a chat that followed a logged one
C36_Witness ==
    /\ resp.op = "chat"
    /\ resp.status = 500
    /\ \E m \in Positions(calls, {"models.generate_content"}) : ~calls[m].ok
    /\ Len(chat_logs) = 1

\* C37: a PUT /files/{T} whose title, content and category are those of the
\* stored record, made on the record's date, is answered 400 without the
\* record, issues no call to the vector index and leaves the files
\* collection and the index as they were.
C37_NoOpUpdateRejected ==
    [][(/\ UpdateServed
        /\ Matches(files, resp'.title) # {}
        /\ LET doc == files[FirstMatch(files, resp'.title)]
           IN /\ resp'.request.title = doc.title
              /\ resp'.request.content = doc.content
              /\ resp'.request.category = doc.category
              /\ today = doc.date) =>
          /\ resp'.status = 400
          /\ resp'.body = NoBody
          /\ files' = files
          /\ index' = index
          /\ \A j \in 1..Len(calls') : calls'[j].api \in {"files.find_one", "files.update_one"}]_vars

\* the update of a stored note with its own fields on its own date was
\* answered 400
C37_Witness ==
    /\ resp.op = "update"
    /\ resp.status = 400
    /\ Matches(files, resp.title) # {}
    /\ LET doc == files[FirstMatch(files, resp.title)]
       IN /\ resp.request = Request(doc.title, doc.content, doc.category)
          /\ today = doc.date
    /\ Positions(calls, {"files.update_one"}) # {}

ContextServed == Idle /\ resp'.op = "get_context"

\* C32: when the query holds a trigger keyword and the search returns at
\* least one hit, get_context issues one index.search, with top_k = 10, the
\* query as its text and the configured namespace, and the context
\* returned is the chunk text of the first hit, whatever the hits after it.
C32_SingleBestPassage ==
    [][(/\ ContextServed
        /\ Triggered(resp'.request.content)
        /\ \E j \in Positions(calls', {"index.search"}) :
              calls'[j].ok /\ calls'[j].hits # <<>>) =>
          /\ Len(calls') = 1
          /\ calls'[1].api = "index.search"
          /\ calls'[1].top_k = 10
          /\ calls'[1].text = resp'.request.content
          /\ calls'[1].ns = PINECONE_NAMESPACE
          /\ Len(calls'[1].hits) <= 10
          /\ resp'.status = 200
          /\ resp'.body.status = "Context found"
          /\ resp'.body.context = Some(calls'[1].hits[1].chunk_text)]_vars

\* the same of the get_context of the console chat, whose namespace is the
\* one its keyword table gives for the keyword: the model is called with
\* the chunk text of the first hit of the turn's last search
ConsoleSingleBestPassage ==
    [][ConsoleServed =>
          /\ \A j \in Positions(calls', {"index.search"}) :
                /\ calls'[j].top_k = 10
                /\ \E k \in 1..Len(console_keywords) :
                      calls'[j].ns = console_keywords[k].namespace
          /\ \A i \in Positions(calls', {"models.generate_content"}) :
                LET found == {j \in Positions(calls', {"index.search"}) :
                                 j < i /\ calls'[j].ok /\ calls'[j].hits # <<>>}
                IN found # {} =>
                     calls'[i].system_instruction
                       = Persona \o DirectiveHead
                           \o calls'[LastOf(found)].hits[1].chunk_text \o DirectiveTail]_vars

\* a search returned three hits whose first and last differ in text, and
\* the text of the first was answered
C32_Witness ==
    /\ resp.op = "get_context"
    /\ resp.status = 200
    /\ \E j \in Positions(calls, {"index.search"}) :
          /\ Len(calls[j].hits) = 3
          /\ calls[j].hits[1].chunk_text # calls[j].hits[3].chunk_text
          /\ resp.body.context = Some(calls[j].hits[1].chunk_text)

\* the calls a request can issue: has_index, create_index_for_model and one
\* upsert per batch for an upload; has_index and the delete for a vector
\* delete; find_one and one write for a record; two searches, the model
\* and the log for a chat
CallBound(following) ==
    LET batches == NumBatches(following.resp.request.content)
    IN CASE following.op = "upload" -> 2 + batches + 2
         [] following.op = "update" -> 1 + 2 + (2 + batches) + 2
         [] following.op = "delete" -> 1 + 2 + 1
         [] following.op = "chat" -> 2 + 1 + 1

====
